---- MODULE Spec2Model ----
(***************************************************************************)
(* Model of the_test_framework.core: the execution engine                  *)
(* (TestSystem._test_system_exec_loop), the decorated test steps           *)
(* (DecoratedTestStep.__call__), the step supervision                      *)
(* (TestStepSupervisor / TestStepSupervision / TestStepMetadata) and the   *)
(* result algebra (TestResult.merge, infer_test_result).                   *)
(*                                                                         *)
(* The engine worker is a call stack: frames[1] is the body of the slot    *)
(* callback the engine is blocked in, every further frame is one running   *)
(* DecoratedTestStep.__call__.  User code (callback and step bodies) is    *)
(* an input: at each point a body may call a step, return or raise.        *)
(***************************************************************************)
EXTENDS Integers, Sequences, FiniteSets, TLC

\* ---------------------------------------------------------------- bounds
MaxNodes  == 2      \* step nodes created in one run
MaxDepth  == 3      \* frames on the engine's call stack (callback + steps)
MaxErrors == 1      \* MonitorErrors recorded in one run
MaxParams == 2      \* parameters of a callback given to register
MaxGuards == 2      \* never_abort() blocks open at the same time
MaxSteps  == 3      \* step nodes of one run of SpecSteps

\* ------------------------------------------------------------ vocabulary
Slots == {"system_setup", "test_bed_preparation", "uut_setup",
          "test_sequence", "uut_recovery", "uut_result_handler"}

\* dtypes.TestResult
TestResult == {"SUCCESS", "FAILED", "EXCEPTION"}

\* dtypes.TestResultMergingPrecedence
TestResultMergingPrecedence == <<"SUCCESS", "FAILED", "EXCEPTION">>

\* exceptions user code raises itself: the control signals of exceptions.py
\* and one representative foreign exception ("Other"); AbortTestSequence is
\* raised by the step call (decorated_test_step.py 70)
CallbackExceptions == {"Other", "QuitTestSystem"}
StepExceptions     == {"FailedTest", "Other", "QuitTestSystem"}

\* the tasks given to TestSystemMonitor.add_task
MonitoredTasks == {"task"}

\* the slot callbacks whose body calls decorated steps
StepCallers == {"uut_setup"}

\* values a body can return: plain data, a TestResult member, or a
\* CustomTestResult(result, returned)
Plain(d)     == [tag |-> "plain",  res |-> "-", data |-> d]
Enum(r)      == [tag |-> "result", res |-> r,   data |-> "-"]
Custom(r, d) == [tag |-> "custom", res |-> r,   data |-> d]
Unset        == [tag |-> "unset",  res |-> "-", data |-> "-"]
PyNone       == Plain("None")

CallbackValues == {PyNone, Plain("data")}
StepValues     == {Plain("data"), Enum("FAILED"), Custom("FAILED", "data")}

VARIABLES
    pc,               \* position of the engine worker in _test_system_exec_loop
    running,          \* SharedMemory.running
    quit_requested,   \* TestSystem._quit_requested
    fatal,            \* TestSystem._is_there_shit_on_the_fan
    do_not_abort,     \* TestSystem._do_not_abort
    registered,       \* slots whose RegisteredCallback._registered is set
    system_setup_data,\* local of the loop
    uut_setup_data,   \* local of the loop
    scopes,           \* the ExitStacks that are open, oldest first
    iter,             \* loop iterations begun
    frames,           \* call stack of the engine worker below the loop
    nodes,            \* every TestStepMetadata created, with its supervision
    test_step_stack,  \* TestStepSupervisor._test_step_stack
    sequence,         \* TestSequenceSupervision._sequence of the iteration
    mon_errors,       \* TestSystemMonitor._error
    calls,            \* history: slot invocations, in order
    handled,          \* history: exceptions given to the error handler
    released,         \* history: ExitStacks closed, in order
    seq_entered,      \* history: iterations that reached the SEQUENCE phase
    integrated,       \* RegisteredCallback._integrated_func of every slot
    api,              \* the last call of the setup API and how it ended
    workers,          \* the threads TestSystem.__call__ has started
    evaluated,        \* a pure function applied to arguments, and its value
    guards,           \* the never_abort() blocks that are open, innermost last
    raised_faults,    \* history: the ClusterFuckExceptions raised
    writers,          \* history: the workers that have written a shared field
    ctl_pc,           \* position of the controller in TestSystem.__call__
    mon_pc,           \* position of the monitor worker in monitor_loop
    monitor_is_running, \* TestSystemMonitor._monitor_is_running
    checks,           \* TestSystemMonitor._callbacks
    tasks,            \* TestSystemMonitor._tasks
    tick,             \* the tick of monitor_loop in progress: its iterators
                      \* and, as history, what it has done
    dead_tasks        \* the workers whose is_alive() has become false

vars == <<pc, running, quit_requested, fatal, do_not_abort, registered,
          system_setup_data, uut_setup_data, scopes, iter, frames, nodes,
          test_step_stack, sequence, mon_errors, calls, handled, released,
          seq_entered, integrated, api, workers, evaluated, guards,
          raised_faults, writers, ctl_pc, mon_pc, monitor_is_running, checks,
          tasks, tick, dead_tasks>>

engineVars == <<pc, running, quit_requested, fatal, system_setup_data,
                uut_setup_data, scopes, iter, calls, handled, released,
                seq_entered>>
stepVars   == <<nodes, test_step_stack, sequence>>
setupVars  == <<registered, integrated, api, workers>>
workerVars == <<ctl_pc, mon_pc, monitor_is_running, checks, tasks, tick,
                dead_tasks>>

\* ------------------------------------------------------- result algebra
\* the smaller of the two precedence indexes wins
Max_Smaller(a, b) == IF a >= b THEN b ELSE a

Max(a, b) == IF a >= b THEN a ELSE b

PrecedenceIndex(r) ==
    CHOOSE i \in 1..Len(TestResultMergingPrecedence) :
        TestResultMergingPrecedence[i] = r

\* TestResult.merge
Merge(a, b) ==
    TestResultMergingPrecedence[Max(PrecedenceIndex(a), PrecedenceIndex(b))]

\* decorated_test_step.infer_return_value
InferReturnValue(returned) ==
    IF returned.tag = "custom" THEN Plain(returned.data) ELSE returned

\* the exception is looked at before the value the body returned
InferTestResult_ExceptionFirst(returned, exc_info) ==
    IF exc_info # "None"
    THEN (IF exc_info = "FailedTest" THEN "FAILED" ELSE "EXCEPTION")
    ELSE IF returned.tag \in {"result", "custom"} THEN returned.res
    ELSE "SUCCESS"

\* helpers.infer_test_result
InferTestResult(returned, exc_info) ==
    IF returned.tag = "result" THEN returned.res
    ELSE IF returned.tag = "custom" THEN returned.res
    ELSE IF exc_info # "None"
         THEN (IF exc_info = "FailedTest" THEN "FAILED" ELSE "EXCEPTION")
         ELSE "SUCCESS"

\* functools.reduce(lambda a, b: a.merge(b), [*S, last]) for a set S
RECURSIVE MergeAll(_, _)
MergeAll(S, last) ==
    IF S = {} THEN last
    ELSE LET x == CHOOSE y \in S : TRUE
         IN  IF S = {x} THEN Merge(x, last)
             ELSE Merge(x, MergeAll(S \ {x}, last))

\* ------------------------------------------------------ TestStepMetadata
\* TestStepMetadata.__init__ together with the two flags of its
\* TestStepSupervision; body and call are history fields
NewMetadata(parent, abort) ==
    [parent |-> parent, children |-> <<>>, abort_on_error |-> abort,
     exc_info |-> "None", return_value |-> Unset,
     return_value_is_set |-> FALSE,
     start_set |-> FALSE, end_set |-> FALSE, log_set |-> FALSE,
     completed |-> FALSE,
     traversed_context |-> FALSE, submitted_return_value |-> FALSE,
     body |-> "running", call |-> "running"]

Range(s) == {s[i] : i \in 1..Len(s)}

\* TestStepMetadata.test_result; "RuntimeError" stands for the raise
RECURSIVE TestResultOf(_, _)
TestResultOf(ns, n) ==
    IF ~ns[n].completed THEN "RuntimeError"
    ELSE LET embedded_results ==
                 {TestResultOf(ns, c) : c \in Range(ns[n].children)}
             inferred_test_result ==
                 InferTestResult(ns[n].return_value, ns[n].exc_info)
         IN  IF "RuntimeError" \in embedded_results THEN "RuntimeError"
             ELSE MergeAll(embedded_results, inferred_test_result)

\* TestStepSupervisor.active_test_step (0 is None)
ActiveTestStep(stack) == IF Len(stack) > 0 THEN stack[Len(stack)] ELSE 0

\* TestStepSupervisor.supervise_test_step: the metadata is created with the
\* active step as parent and appended to the parent's children
\* the metadata is created without its parent
SuperviseTestStep_Orphan(ns, stack, abort) ==
    Append(ns, NewMetadata(0, abort))

SuperviseTestStep(ns, stack, abort) ==
    LET parent == ActiveTestStep(stack)
        id     == Len(ns) + 1
        withNew == Append(ns, NewMetadata(parent, abort))
    IN  IF parent = 0 THEN withNew
        ELSE [withNew EXCEPT ![parent].children = Append(@, id)]

\* TestStepSupervision._attempt_to_complete
\* completion as soon as either half has happened
AttemptToComplete_Either(m) ==
    IF m.submitted_return_value \/ m.traversed_context
    THEN [m EXCEPT !.completed = TRUE]
    ELSE m

AttemptToComplete(m) ==
    IF m.submitted_return_value /\ m.traversed_context
    THEN [m EXCEPT !.completed = TRUE]
    ELSE m

\* TestStepSupervision.__enter__ on the metadata
EnterMetadata(m) == [m EXCEPT !.start_set = TRUE]

\* TestStepSupervision.__exit__ on the metadata
ExitMetadata(m, exc_val) ==
    AttemptToComplete([m EXCEPT !.end_set = TRUE,
                                !.traversed_context = TRUE,
                                !.exc_info = exc_val,
                                !.log_set = TRUE])

\* TestStepSupervision.submit_return_value on the metadata
SubmitReturnValue(m, return_value) ==
    AttemptToComplete([m EXCEPT !.return_value = return_value,
                                !.return_value_is_set = TRUE,
                                !.submitted_return_value = TRUE])

\* test_system.py 59: the supervisor a TestSystem is constructed with has
\* no callbacks.  The assignment of lines 406-410, which would replace it
\* by one that has, is never completed (SetupSupervisionRaises).
OnTestStepEnterCallback == "None"

\* sequence/supervision.py 29-33
SubmitTestStepMetaData(seq, ns, id) ==
    IF ns[id].parent # 0 THEN seq ELSE Append(seq, id)

\* test_step/supervision.py 112-115: the second half of the enter callback
OnTestStepEnter(seq, ns, id) ==
    IF OnTestStepEnterCallback = "None" THEN seq
    ELSE SubmitTestStepMetaData(seq, ns, id)

\* ---------------------------------------------------------------- frames
CallbackFrame(slot, state, returned) ==
    [kind |-> "cb", slot |-> slot, node |-> 0, pc |-> state,
     returned |-> returned, exc |-> "None"]

StepFrame(node) ==
    [kind |-> "step", slot |-> "-", node |-> node, pc |-> "body",
     returned |-> Unset, exc |-> "None"]

Top == frames[Len(frames)]

\* a frame's body ends: by a return (exc = "None") or by an exception
EndBody(f, returned, exc) ==
    [f EXCEPT !.pc = IF f.kind = "step" THEN "raising" ELSE "done",
              !.returned = returned, !.exc = exc]

\* RegisteredCallback._invoke: the body of a registered callback starts; an
\* unregistered slot returns None at once
Invoke(slot) ==
    IF slot \in registered
    THEN <<CallbackFrame(slot, "body", Unset)>>
    ELSE <<CallbackFrame(slot, "done", PyNone)>>

\* ------------------------------------------------------ callback registry
\* well_known_argument.WellKnownArgument
WellKnownArgument == {"exit_stack", "system_setup_data", "uut_setup_data",
                      "test_sequence_data", "test_result"}

\* actual_callbacks.py: the well-known arguments the __call__ of every slot
\* declares, which are the ones its call site supplies
NativeArgs(slot) ==
    CASE slot = "system_setup"         -> {"exit_stack"}
      [] slot = "test_bed_preparation" -> {"system_setup_data"}
      [] slot = "uut_setup"            -> {"system_setup_data", "exit_stack"}
      [] slot = "test_sequence"        -> {"system_setup_data",
                                           "uut_setup_data"}
      [] slot \in {"uut_recovery", "uut_result_handler"}
                                       -> {"system_setup_data",
                                           "uut_setup_data",
                                           "test_sequence_data", "test_result"}

\* every slot is mandatory
Mandatory_Every(slot) == slot \in Slots

\* the class attribute "mandatory" of the slot classes
Mandatory(slot) == slot = "test_sequence"

\* CallbackRegistry.__iter__: the order in which check() visits the slots
RegistryOrder == <<"system_setup", "test_bed_preparation", "uut_setup",
                   "uut_recovery", "test_sequence", "uut_result_handler">>

\* a parameter of a foreign function as inspect.signature shows it: its
\* kind ("keyword" is POSITIONAL_OR_KEYWORD or KEYWORD_ONLY), the
\* well-known argument its annotation requests ("none": no such
\* annotation) and whether it has a default value
ParameterKinds == {"keyword", "positional_only", "var_positional",
                   "var_keyword"}

Parameters ==
    {p \in [kind : ParameterKinds,
            requests : WellKnownArgument \cup {"none"},
            has_default : BOOLEAN] :
        p.kind \in {"var_positional", "var_keyword"} => ~p.has_default}

\* the signatures Python accepts: positional-only parameters come first,
\* there is at most one *args and one **kwargs, and **kwargs comes last
ValidSignature(cb) ==
    /\ \A i, j \in DOMAIN cb :
           (i < j /\ cb[j].kind = "positional_only")
               => cb[i].kind = "positional_only"
    /\ \A i, j \in DOMAIN cb :
           (i # j /\ cb[i].kind = cb[j].kind)
               => cb[i].kind \notin {"var_positional", "var_keyword"}
    /\ \A i \in DOMAIN cb : cb[i].kind = "var_keyword" => i = Len(cb)

\* the foreign functions with at most n parameters
Callbacks(n) ==
    {cb \in UNION {[1..k -> Parameters] : k \in 0..n} : ValidSignature(cb)}

\* facilities.get_flagged_argument / get_argument_by_type: the parameters
\* of cb that request wk; more than one is a RuntimeError
MatchingArgs(cb, wk) == {i \in DOMAIN cb : cb[i].requests = wk}

\* well_known_argument.well_known_arguments: the arguments cb requests
\* ("RuntimeError" when the generator raises)
WellKnownArguments(cb) ==
    IF \E wk \in WellKnownArgument : Cardinality(MatchingArgs(cb, wk)) > 1
    THEN "RuntimeError"
    ELSE "None"

ForeignWk(cb) == {wk \in WellKnownArgument : MatchingArgs(cb, wk) # {}}

\* assimilation.create_kwargs_translation_table: what it raises
TranslationTableRaises(slot, cb) ==
    IF WellKnownArguments(cb) # "None" THEN WellKnownArguments(cb)
    ELSE IF \E wk \in ForeignWk(cb) : wk \notin NativeArgs(slot)
         THEN "TypeError"
         ELSE "None"

\* assimilation.create_kwargs_translation_table: native argument ->
\* parameter of the foreign function
TranslationTable(slot, cb) ==
    [wk \in ForeignWk(cb) |-> CHOOSE i \in MatchingArgs(cb, wk) : TRUE]

\* parameters without default that nothing supplies are let through
AssimilateRaises_OrphansPass(cb, table) ==
    IF \E i \in DOMAIN cb :
           cb[i].kind \in {"var_positional", "var_keyword", "positional_only"}
    THEN "AssertionError"
    ELSE "None"

\* assimilation.assimilate_function, the sanity checks: what they raise
AssimilateRaises(cb, table) ==
    LET args_covered_by_native_api == {table[wk] : wk \in DOMAIN table}
        args_without_default_value ==
            {i \in DOMAIN cb : ~cb[i].has_default}
    IN  IF \E i \in DOMAIN cb : cb[i].kind = "var_positional"
        THEN "AssertionError"
        ELSE IF \E i \in DOMAIN cb : cb[i].kind = "var_keyword"
        THEN "AssertionError"
        ELSE IF \E i \in DOMAIN cb : cb[i].kind = "positional_only"
        THEN "AssertionError"
        ELSE IF args_without_default_value \ args_covered_by_native_api # {}
        THEN "AssertionError"
        ELSE "None"

\* a function already registered is replaced
RegisterRaises_Rebinds(is_registered, slot, cb) ==
    IF TranslationTableRaises(slot, cb) # "None"
    THEN TranslationTableRaises(slot, cb)
    ELSE AssimilateRaises(cb, TranslationTable(slot, cb))

\* RegisteredCallback.register: what registering cb to the slot raises
RegisterRaises(is_registered, slot, cb) ==
    IF is_registered THEN "RuntimeError"
    ELSE IF TranslationTableRaises(slot, cb) # "None"
         THEN TranslationTableRaises(slot, cb)
         ELSE AssimilateRaises(cb, TranslationTable(slot, cb))

\* RegisteredCallback._integrated_func: None, or the assimilated function
NoFunc   == [none |-> TRUE, sig |-> <<>>]
Func(cb) == [none |-> FALSE, sig |-> cb]

\* the last call of the setup API: the operation, the slot and callback of
\* a register, what the call raised and the slots check() warned about
ApiCall(op, slot, callback, raised, warned) ==
    [op |-> op, slot |-> slot, callback |-> callback, raised |-> raised,
     warned |-> warned]

\* CallbackRegistry.check: the slots from position i of the registry on,
\* with the warnings so far
RECURSIVE CheckRegistry(_, _, _)
CheckRegistry(reg, i, warned) ==
    IF i > Len(RegistryOrder) THEN [raised |-> "None", warned |-> warned]
    ELSE LET callback == RegistryOrder[i]
         IN  IF callback \in reg THEN CheckRegistry(reg, i + 1, warned)
             ELSE IF Mandatory(callback)
                  THEN [raised |-> "RuntimeError",
                        warned |-> warned \cup {callback}]
                  ELSE CheckRegistry(reg, i + 1, warned \cup {callback})

\* the threads of a run: the caller of TestSystem.__call__ (and of quit(),
\* the exit button), the engine worker and the monitor worker
ConcurrentWorkers == {"controller", "engine", "monitor"}

\* the fields of TestSystem, SharedMemory and TestSystemMonitor that code
\* running on those threads assigns or mutates
SharedFields == {"running", "quit_requested", "fatal", "mon_errors",
                 "monitor_is_running", "checks", "tasks"}

\* the worker writes the field
Wrote(field, worker) == [writers EXCEPT ![field] = @ \cup {worker}]

\* no pure function applied
NotEvaluated == [fn |-> "none", args |-> <<>>, done |-> FALSE,
                 value |-> "pending"]

\* ------------------------------------------------------------------ Init
\* TestSystem.__init__: the engine, the supervisor and the monitor as
\* constructed, nothing run yet
Constructed ==
    /\ running = TRUE
    /\ quit_requested = FALSE
    /\ fatal = FALSE
    /\ do_not_abort = FALSE
    /\ system_setup_data = Unset
    /\ uut_setup_data = Unset
    /\ scopes = <<>>
    /\ iter = 0
    /\ frames = <<>>
    /\ nodes = <<>>
    /\ test_step_stack = <<>>
    /\ sequence = <<>>
    /\ mon_errors = <<>>
    /\ calls = <<>>
    /\ handled = <<>>
    /\ released = <<>>
    /\ seq_entered = {}
    /\ guards = <<>>
    /\ raised_faults = <<>>
    /\ writers = [field \in SharedFields |-> {}]

\* TestSystemMonitor.__init__, and TestSystem.__call__ not called yet
\* no tick of monitor_loop has begun
NoTick ==
    [iterating |-> FALSE, size |-> 0, visited |-> {}, failed |-> {},
     hooks |-> <<>>, i |-> 0,
     base |-> 0, stable_checks |-> {}, stable_tasks |-> {},
     dead_at_start |-> {}, over |-> FALSE]

NotActivated ==
    /\ ctl_pc = "idle"
    /\ mon_pc = "unstarted"
    /\ monitor_is_running = FALSE
    /\ checks = {}
    /\ tasks = <<>>
    /\ tick = NoTick
    /\ dead_tasks = {}

\* the test system activated (TestSystem.__call__ has started the workers)
\* with a registry that passed check()
Init ==
    /\ pc = "start"
    /\ Constructed
    /\ registered \in {Slots, {"test_sequence"},
                       {"test_sequence", "uut_setup"}}
    /\ integrated = [slot \in Slots |->
                         IF slot \in registered THEN Func(<<>>) ELSE NoFunc]
    /\ api = ApiCall("activate", "-", NoFunc, "None", Slots \ registered)
    /\ workers = {"monitor", "engine"}
    /\ evaluated = NotEvaluated
    /\ ctl_pc = "waiting"
    /\ mon_pc = "loop"
    /\ monitor_is_running = TRUE
    /\ checks = {}
    /\ tasks = <<"task">>
    /\ tick = NoTick
    /\ dead_tasks = {}

\* ---------------------------------------------------------------- engine
Wrecked == Len(mon_errors) > 0          \* TestSystemMonitor.wrecked

\* open: the ExitStacks that are open while the callback runs
LogCall(slot, open) == Append(calls, [slot |-> slot, iter |-> iter,
                                system_setup_data |-> system_setup_data,
                                uut_setup_data |-> uut_setup_data,
                                scopes |-> open])

CallbackDone(state) ==
    /\ pc = state
    /\ Len(frames) = 1
    /\ Top.kind = "cb"
    /\ Top.pc = "done"

\* test_system.py 442-447: the handlers of the outer try; h is the error
\* handler's history so far
OuterExcept(e, h) ==
    /\ pc' = "teardown"
    /\ IF e = "QuitTestSystem"
       THEN /\ quit_requested' = TRUE /\ fatal' = fatal /\ handled' = h
            /\ writers' = Wrote("quit_requested", "engine")
       ELSE /\ quit_requested' = quit_requested /\ fatal' = TRUE
            /\ handled' = Append(h, e)
            /\ writers' = Wrote("fatal", "engine")

\* the with block is left without closing its ExitStack
CloseUutStack_Leaks ==
    /\ scopes' = scopes
    /\ released' = released

\* leaving "with ExitStack() as uut_exit_stack" closes the innermost scope
CloseUutStack ==
    /\ scopes' = SubSeq(scopes, 1, Len(scopes) - 1)
    /\ released' = Append(released, scopes[Len(scopes)])

\* test_system.py 381-383
SystemSetupInvoke ==
    /\ pc = "start"
    /\ pc' = "system_setup"
    /\ scopes' = <<"run">>
    /\ calls' = LogCall("system_setup", <<"run">>)
    /\ frames' = Invoke("system_setup")
    /\ UNCHANGED <<seq_entered, running, quit_requested, fatal, do_not_abort,
                   system_setup_data, uut_setup_data, iter, nodes,
                   test_step_stack, sequence, mon_errors, handled, released,
                   setupVars, evaluated, guards, raised_faults, writers,
                   workerVars>>

\* test_system.py 383, 442-447: SystemSetup returned or raised
SystemSetupDone ==
    /\ CallbackDone("system_setup")
    /\ frames' = <<>>
    /\ IF Top.exc = "None"
       THEN /\ system_setup_data' = Top.returned
            /\ pc' = "loop"
            /\ UNCHANGED <<quit_requested, fatal, handled, writers>>
       ELSE /\ OuterExcept(Top.exc, handled)
            /\ UNCHANGED system_setup_data
    /\ UNCHANGED <<seq_entered, running, do_not_abort, uut_setup_data, scopes,
                   iter, nodes, test_step_stack, sequence, mon_errors, calls,
                   released, setupVars, evaluated, guards, raised_faults,
                   workerVars>>

\* test_system.py 385: while self.running
LoopCheck ==
    /\ pc = "loop"
    /\ IF running
       THEN pc' = "check1" /\ iter' = iter + 1
       ELSE pc' = "teardown" /\ iter' = iter
    /\ UNCHANGED <<seq_entered, running, quit_requested, fatal, do_not_abort,
                   system_setup_data, uut_setup_data, scopes, frames, nodes,
                   test_step_stack, sequence, mon_errors, calls, handled,
                   released, setupVars, evaluated, guards, raised_faults,
                   writers, workerVars>>

\* the aggregate fault names the first MonitorError only
RaiseAccumulatedErrors1_FirstOnly ==
    /\ pc = "check1"
    /\ IF Wrecked
       THEN /\ OuterExcept("ClusterFuckException",
                           Append(handled, "ClusterFuckException"))
            /\ raised_faults' = Append(raised_faults, <<mon_errors[1]>>)
       ELSE /\ pc' = "bed_prep"
            /\ UNCHANGED <<quit_requested, fatal, handled, writers,
                           raised_faults>>
    /\ UNCHANGED <<seq_entered, running, do_not_abort, system_setup_data,
                   uut_setup_data, scopes, iter, frames, nodes,
                   test_step_stack, sequence, mon_errors, calls, released,
                   setupVars, evaluated, guards, workerVars>>

\* test_system.py 386 with 61-66 and 444-447: the check before an iteration
RaiseAccumulatedErrors1 ==
    /\ pc = "check1"
    /\ IF Wrecked
       THEN /\ OuterExcept("ClusterFuckException",
                           Append(handled, "ClusterFuckException"))
            /\ raised_faults' = Append(raised_faults, mon_errors)
       ELSE /\ pc' = "bed_prep"
            /\ UNCHANGED <<quit_requested, fatal, handled, writers,
                           raised_faults>>
    /\ UNCHANGED <<seq_entered, running, do_not_abort, system_setup_data,
                   uut_setup_data, scopes, iter, frames, nodes,
                   test_step_stack, sequence, mon_errors, calls, released,
                   setupVars, evaluated, guards, workerVars>>

\* SystemSetup run again at the head of every iteration
BedPrepInvoke_SetsUpAgain ==
    /\ pc = "bed_prep"
    /\ pc' = "in_bed_prep"
    /\ calls' = LogCall("system_setup", scopes)
    /\ frames' = Invoke("system_setup")
    /\ UNCHANGED <<seq_entered, running, quit_requested, fatal, do_not_abort,
                   system_setup_data, uut_setup_data, scopes, iter, nodes,
                   test_step_stack, sequence, mon_errors, handled, released,
                   setupVars, evaluated, guards, raised_faults, writers,
                   workerVars>>

\* test_system.py 388-389
BedPrepInvoke ==
    /\ pc = "bed_prep"
    /\ pc' = "in_bed_prep"
    /\ calls' = LogCall("test_bed_preparation", scopes)
    /\ frames' = Invoke("test_bed_preparation")
    /\ UNCHANGED <<seq_entered, running, quit_requested, fatal, do_not_abort,
                   system_setup_data, uut_setup_data, scopes, iter, nodes,
                   test_step_stack, sequence, mon_errors, handled, released,
                   setupVars, evaluated, guards, raised_faults, writers,
                   workerVars>>

\* test_system.py 388-389, 442-447: TestBedPreparation returned or raised
BedPrepDone ==
    /\ CallbackDone("in_bed_prep")
    /\ frames' = <<>>
    /\ IF Top.exc = "None"
       THEN pc' = "uut_setup" /\ UNCHANGED <<quit_requested, fatal, handled, writers>>
       ELSE OuterExcept(Top.exc, handled)
    /\ UNCHANGED <<seq_entered, running, do_not_abort, system_setup_data,
                   uut_setup_data, scopes, iter, nodes, test_step_stack,
                   sequence, mon_errors, calls, released, setupVars,
                   evaluated, guards, raised_faults, workerVars>>

\* test_system.py 391-395
UutSetupInvoke ==
    /\ pc = "uut_setup"
    /\ pc' = "in_uut_setup"
    /\ scopes' = Append(scopes, "uut")
    /\ calls' = LogCall("uut_setup", Append(scopes, "uut"))
    /\ frames' = Invoke("uut_setup")
    /\ UNCHANGED <<seq_entered, running, quit_requested, fatal, do_not_abort,
                   system_setup_data, uut_setup_data, iter, nodes,
                   test_step_stack, sequence, mon_errors, handled, released,
                   setupVars, evaluated, guards, raised_faults, writers,
                   workerVars>>

\* the quit signal of UutSetup handled like any other exception
UutSetupDone_QuitIsFatal ==
    /\ CallbackDone("in_uut_setup")
    /\ frames' = <<>>
    /\ IF Top.exc = "None"
       THEN /\ uut_setup_data' = Top.returned
            /\ pc' = "check2"
            /\ UNCHANGED <<quit_requested, fatal, handled, scopes, released,
                           writers>>
       ELSE /\ handled' = Append(handled, Top.exc)
            /\ fatal' = TRUE
            /\ writers' = Wrote("fatal", "engine")
            /\ CloseUutStack
            /\ pc' = "teardown"
            /\ UNCHANGED <<quit_requested, uut_setup_data>>
    /\ UNCHANGED <<seq_entered, running, do_not_abort, system_setup_data,
                   iter, nodes, test_step_stack, sequence, mon_errors, calls,
                   setupVars, evaluated, guards, raised_faults, workerVars>>

\* test_system.py 393-403: UutSetup returned or raised; both handlers break
\* out of the loop through the end of the with block
UutSetupDone ==
    /\ CallbackDone("in_uut_setup")
    /\ frames' = <<>>
    /\ IF Top.exc = "None"
       THEN /\ uut_setup_data' = Top.returned
            /\ pc' = "check2"
            /\ UNCHANGED <<quit_requested, fatal, handled, scopes, released,
                           writers>>
       ELSE /\ IF Top.exc = "QuitTestSystem"
               THEN /\ quit_requested' = TRUE
                    /\ writers' = Wrote("quit_requested", "engine")
                    /\ UNCHANGED <<fatal, handled>>
               ELSE /\ handled' = Append(handled, Top.exc)
                    /\ fatal' = TRUE
                    /\ writers' = Wrote("fatal", "engine")
                    /\ UNCHANGED quit_requested
            /\ CloseUutStack
            /\ pc' = "teardown"
            /\ UNCHANGED uut_setup_data
    /\ UNCHANGED <<seq_entered, running, do_not_abort, system_setup_data,
                   iter, nodes, test_step_stack, sequence, mon_errors, calls,
                   setupVars, evaluated, guards, raised_faults, workerVars>>

\* test_system.py 405 with 61-66 and 444-447: the check after UutSetup; the
\* aggregate fault leaves the with block and reaches the outer handler
RaiseAccumulatedErrors2 ==
    /\ pc = "check2"
    /\ IF Wrecked
       THEN /\ OuterExcept("ClusterFuckException",
                           Append(handled, "ClusterFuckException"))
            /\ raised_faults' = Append(raised_faults, mon_errors)
            /\ CloseUutStack
       ELSE /\ pc' = "supervision"
            /\ UNCHANGED <<quit_requested, fatal, handled, scopes, released,
                           writers, raised_faults>>
    /\ UNCHANGED <<seq_entered, running, do_not_abort, system_setup_data,
                   uut_setup_data, iter, frames, nodes, test_step_stack,
                   sequence, mon_errors, calls, setupVars, evaluated, guards,
                   workerVars>>

\* sequence/supervision.py 21-39: TestStepSupervisor.__init__
\* (test_step/supervision.py 74-81) has no parameter log_capture, so the
\* constructor call raises TypeError
SetupSupervisionRaises == "TypeError"

\* test_system.py 407-410, 444-447: the TypeError leaves the with block and
\* reaches the outer handler; lines 412-440 are never reached
SetupSupervision ==
    /\ pc = "supervision"
    /\ seq_entered' = seq_entered \cup {iter}
    /\ OuterExcept(SetupSupervisionRaises, handled)
    /\ CloseUutStack
    /\ UNCHANGED <<running, do_not_abort, system_setup_data, uut_setup_data,
                   iter, frames, nodes, test_step_stack, sequence, mon_errors,
                   calls, setupVars, evaluated, guards, raised_faults,
                   workerVars>>

\* the running flag is left set
Teardown_KeepsRunning ==
    /\ pc = "teardown"
    /\ pc' = "stopped"
    /\ scopes' = <<>>
    /\ released' = released \o [i \in 1..Len(scopes) |->
                                    scopes[Len(scopes) + 1 - i]]
    /\ UNCHANGED <<seq_entered, running, quit_requested, fatal, do_not_abort,
                   system_setup_data, uut_setup_data, iter, frames, nodes,
                   test_step_stack, sequence, mon_errors, calls, handled,
                   setupVars, evaluated, guards, raised_faults, writers,
                   workerVars>>

\* test_system.py 448-451
Teardown ==
    /\ pc = "teardown"
    /\ pc' = "stopped"
    /\ scopes' = <<>>
    /\ released' = released \o [i \in 1..Len(scopes) |->
                                    scopes[Len(scopes) + 1 - i]]
    /\ running' = FALSE
    /\ writers' = Wrote("running", "engine")
    /\ UNCHANGED <<seq_entered, quit_requested, fatal, do_not_abort,
                   system_setup_data, uut_setup_data, iter, frames, nodes,
                   test_step_stack, sequence, mon_errors, calls, handled,
                   setupVars, evaluated, guards, raised_faults, workerVars>>

\* TestSystem.quit, called from another thread (the exit button)
Quit ==
    /\ pc # "stopped"
    /\ ~quit_requested
    /\ quit_requested' = TRUE
    /\ writers' = Wrote("quit_requested", "controller")
    /\ UNCHANGED <<seq_entered, pc, running, fatal, do_not_abort,
                   system_setup_data, uut_setup_data, scopes, iter, frames,
                   nodes, test_step_stack, sequence, mon_errors, calls,
                   handled, released, setupVars, evaluated, guards,
                   raised_faults, workerVars>>

\* TestSystemMonitor.set_error, called by the monitor worker for a dead task
SetError(task) ==
    /\ pc # "stopped"
    /\ Len(mon_errors) < MaxErrors
    /\ mon_errors' = Append(mon_errors, task)
    /\ writers' = Wrote("mon_errors", "monitor")
    /\ UNCHANGED <<seq_entered, pc, running, quit_requested, fatal,
                   do_not_abort, system_setup_data, uut_setup_data, scopes,
                   iter, frames, nodes, test_step_stack, sequence, calls,
                   handled, released, setupVars, evaluated, guards,
                   raised_faults, workerVars>>

\* ------------------------------------------------- user code in a body
InBody(kind) == Len(frames) > 0 /\ Top.kind = kind /\ Top.pc = "body"

ReplaceTop(f) == [frames EXCEPT ![Len(frames)] = f]

\* test_system.py 140-153: a never_abort() block belongs to the frame whose
\* body opened it.  The body leaves the block before it returns; an
\* exception that ends the body passes the yield of line 152, so that line
\* 153 is not run and the flag keeps its value.
OwnsGuard == \E i \in DOMAIN guards : guards[i] = Len(frames)

\* the blocks still open when the bodies of the frames from depth on have
\* ended
Abandon(depth) == SelectSeq(guards, LAMBDA g : g < depth)

\* the body of the slot callback returns v to RegisteredCallback._invoke
CallbackReturns(v) ==
    /\ InBody("cb")
    /\ ~OwnsGuard
    /\ frames' = ReplaceTop(EndBody(Top, v, "None"))
    /\ UNCHANGED <<engineVars, stepVars, do_not_abort, mon_errors, setupVars,
                   evaluated, guards, raised_faults, writers, workerVars>>

\* the body of the slot callback raises e itself
CallbackRaises(e) ==
    /\ InBody("cb")
    /\ frames' = ReplaceTop(EndBody(Top, Top.returned, e))
    /\ guards' = Abandon(Len(frames))
    /\ UNCHANGED <<engineVars, stepVars, do_not_abort, mon_errors, setupVars,
                   evaluated, raised_faults, writers, workerVars>>

\* ------------------------------------------- DecoratedTestStep.__call__
\* decorated_test_step.py 50-57: the body on top calls a decorated step:
\* supervise_test_step creates the metadata, __enter__ pushes it and the
\* body of the step starts
BodyCallStepWithin(abort, max_nodes, max_depth) ==
    /\ Len(frames) > 0
    /\ Top.pc = "body"
    /\ frames[1].slot \in StepCallers
    /\ Len(frames) < max_depth
    /\ Len(nodes) < max_nodes
    /\ LET id == Len(nodes) + 1
           created == SuperviseTestStep(nodes, test_step_stack, abort)
       IN  /\ nodes' = [created EXCEPT ![id] = EnterMetadata(@)]
           /\ test_step_stack' = Append(test_step_stack, id)
           /\ sequence' = OnTestStepEnter(sequence, created, id)
           /\ frames' = Append(frames, StepFrame(id))
    /\ UNCHANGED <<engineVars, do_not_abort, mon_errors, setupVars, evaluated,
                   guards, raised_faults, writers, workerVars>>

BodyCallStep(abort) == BodyCallStepWithin(abort, MaxNodes, MaxDepth)

\* decorated_test_step.py 57-62: the metadata once the with block is left
\* with exc_val in flight ("None": the body returned); an exception passes
\* __exit__ and is caught by "except Exception", which skips line 59
LeaveSupervision(m, returned, exc_val) ==
    IF exc_val = "None"
    THEN SubmitReturnValue(ExitMetadata(m, exc_val), returned)
    ELSE ExitMetadata(m, exc_val)

\* test_system.py 110-116: what _quit_if_appropriate raises
QuitIfAppropriate(requested, guard) ==
    IF requested /\ ~guard THEN "QuitTestSystem" ELSE "None"

\* decorated_test_step.py 64-79: what the call of the step with metadata n
\* raises ("None": it returns) once the supervision is left
StepCallRaises(ns, n, returned, requested, guard) ==
    IF QuitIfAppropriate(requested, guard) # "None"
    THEN QuitIfAppropriate(requested, guard)
    ELSE LET result == TestResultOf(ns, n)
         IN  IF result = "RuntimeError" THEN "RuntimeError"
             ELSE IF result # "SUCCESS" /\ ns[n].abort_on_error
                  THEN "AbortTestSequence"
             ELSE IF returned = Unset THEN "AssertionError"
             ELSE "None"

\* decorated_test_step.py 57-79 with supervision.py 42-49 and 117-123: the
\* body of the step on top has ended (how: "returned" or the exception in
\* flight), the supervision is left, the metadata popped and the call
\* ends.  What the call raises ends the caller's body in turn, unless it is
\* the RuntimeError and the call site is wrapped in try/except RuntimeError
\* (guarded).
StepEnds(returned, how, guarded) ==
    LET n      == Top.node
        exc    == IF how = "returned" THEN "None" ELSE how
        left   == [nodes EXCEPT ![n] =
                      LeaveSupervision([@ EXCEPT !.body = how], returned, exc)]
        raised == StepCallRaises(left, n, returned, quit_requested,
                                 do_not_abort)
        ended  == [left EXCEPT ![n].call =
                      IF raised = "None" THEN "returned" ELSE raised]
        caller == frames[Len(frames) - 1]
        below  == SubSeq(frames, 1, Len(frames) - 1)
    IN  /\ test_step_stack[Len(test_step_stack)] = n
        /\ test_step_stack' =
               SubSeq(test_step_stack, 1, Len(test_step_stack) - 1)
        /\ nodes' = ended
        /\ frames' = IF raised = "None" \/ (raised = "RuntimeError" /\ guarded)
                     THEN below
                     ELSE [below EXCEPT ![Len(below)] =
                              EndBody(caller, caller.returned, raised)]
        /\ guards' = IF raised = "None" \/ (raised = "RuntimeError" /\ guarded)
                     THEN Abandon(Len(frames))
                     ELSE Abandon(Len(frames) - 1)
        /\ UNCHANGED <<engineVars, sequence, do_not_abort, mon_errors,
                       setupVars, evaluated, raised_faults, writers,
                       workerVars>>

\* the body of the step on top returns v (decorated_test_step.py 58)
StepBodyReturns(v, guarded) ==
    /\ InBody("step")
    /\ ~OwnsGuard
    /\ StepEnds(InferReturnValue(v), "returned", guarded)

\* the body of the step on top raises e itself
StepBodyRaises(e, guarded) ==
    /\ InBody("step")
    /\ StepEnds(Unset, e, guarded)

\* the body of the step on top was ended by the exception of a step it
\* called
StepUnwinds(guarded) ==
    /\ Len(frames) > 0
    /\ Top.kind = "step"
    /\ Top.pc = "raising"
    /\ StepEnds(Unset, Top.exc, guarded)

\* ------------------------------------------------------- specification
Next ==
    \/ SystemSetupInvoke
    \/ SystemSetupDone
    \/ LoopCheck
    \/ RaiseAccumulatedErrors1
    \/ BedPrepInvoke
    \/ BedPrepDone
    \/ UutSetupInvoke
    \/ UutSetupDone
    \/ RaiseAccumulatedErrors2
    \/ SetupSupervision
    \/ Teardown
    \/ Quit
    \/ \E task \in MonitoredTasks : SetError(task)
    \/ \E v \in CallbackValues : CallbackReturns(v)
    \/ \E e \in CallbackExceptions : CallbackRaises(e)
    \/ \E abort \in BOOLEAN : BodyCallStep(abort)
    \/ \E v \in StepValues, guarded \in BOOLEAN : StepBodyReturns(v, guarded)
    \/ \E e \in StepExceptions, guarded \in BOOLEAN :
           StepBodyRaises(e, guarded)
    \/ \E guarded \in BOOLEAN : StepUnwinds(guarded)

Spec == Init /\ [][Next]_vars

\* ------------------------------------------------ the steps of one run
\* The engine with every slot bound, no quit request and no monitor
\* fault: the tree of steps UutSetup calls, MaxSteps nodes large and deep.
InitSteps ==
    /\ Init
    /\ registered = Slots

NextSteps ==
    \/ SystemSetupInvoke
    \/ SystemSetupDone
    \/ LoopCheck
    \/ RaiseAccumulatedErrors1
    \/ BedPrepInvoke
    \/ BedPrepDone
    \/ UutSetupInvoke
    \/ UutSetupDone
    \/ RaiseAccumulatedErrors2
    \/ SetupSupervision
    \/ Teardown
    \/ CallbackReturns(PyNone)
    \/ \E e \in CallbackExceptions : CallbackRaises(e)
    \/ \E abort \in BOOLEAN :
           BodyCallStepWithin(abort, MaxSteps, MaxSteps + 1)
    \/ \E v \in StepValues, guarded \in BOOLEAN : StepBodyReturns(v, guarded)
    \/ \E e \in StepExceptions, guarded \in BOOLEAN :
           StepBodyRaises(e, guarded)
    \/ \E guarded \in BOOLEAN : StepUnwinds(guarded)

SpecSteps == InitSteps /\ [][NextSteps]_vars

\* ------------------------------------------------------- never_abort()
\* test_system.py 151: the body on top enters a never_abort() block
NeverAbortEnter ==
    /\ Len(frames) > 0
    /\ Top.pc = "body"
    /\ Len(guards) < MaxGuards
    /\ do_not_abort' = TRUE
    /\ guards' = Append(guards, Len(frames))
    /\ UNCHANGED <<engineVars, stepVars, frames, mon_errors, setupVars,
                   evaluated, raised_faults, writers, workerVars>>

\* test_system.py 153: the body on top leaves its innermost never_abort()
\* block normally
NeverAbortExit ==
    /\ Len(frames) > 0
    /\ Top.pc = "body"
    /\ guards # <<>>
    /\ guards[Len(guards)] = Len(frames)
    /\ do_not_abort' = FALSE
    /\ guards' = SubSeq(guards, 1, Len(guards) - 1)
    /\ UNCHANGED <<engineVars, stepVars, frames, mon_errors, setupVars,
                   evaluated, raised_faults, writers, workerVars>>

\* the engine with user code that uses never_abort()
NextGuard ==
    \/ Next
    \/ NeverAbortEnter
    \/ NeverAbortExit

SpecGuard == Init /\ [][NextGuard]_vars

\* ------------------------------------------------ the supervision API
\* TestStepSupervisor and TestStepSupervision driven directly, as a caller
\* other than DecoratedTestStep may: a supervision is obtained, entered,
\* left and given its return value, the last two in either order.
InitApi ==
    /\ Init
    /\ registered = Slots

\* TestStepSupervisor.supervise_test_step
ApiSupervise(abort) ==
    /\ Len(nodes) < MaxNodes
    /\ nodes' = SuperviseTestStep(nodes, test_step_stack, abort)
    /\ UNCHANGED <<engineVars, do_not_abort, frames, test_step_stack,
                   sequence, mon_errors, setupVars, evaluated, guards,
                   raised_faults, writers, workerVars>>

\* TestStepSupervision.__enter__
ApiEnter(n) ==
    /\ n \in DOMAIN nodes
    /\ ~nodes[n].start_set
    /\ nodes[n].parent = ActiveTestStep(test_step_stack)
    /\ nodes' = [nodes EXCEPT ![n] = EnterMetadata(@)]
    /\ test_step_stack' = Append(test_step_stack, n)
    /\ sequence' = OnTestStepEnter(sequence, nodes, n)
    /\ UNCHANGED <<engineVars, do_not_abort, frames, mon_errors, setupVars,
                   evaluated, guards, raised_faults, writers, workerVars>>

\* TestStepSupervision.__exit__; the supervisor asserts that the scope left
\* is the innermost one
ApiExit(n, exc_val) ==
    /\ ActiveTestStep(test_step_stack) = n
    /\ n # 0
    /\ nodes' = [nodes EXCEPT ![n] = ExitMetadata(@, exc_val)]
    /\ test_step_stack' = SubSeq(test_step_stack, 1, Len(test_step_stack) - 1)
    /\ UNCHANGED <<engineVars, sequence, do_not_abort, frames, mon_errors,
                   setupVars, evaluated, guards, raised_faults, writers,
                   workerVars>>

\* TestStepSupervision.submit_return_value
ApiSubmit(n, v) ==
    /\ n \in DOMAIN nodes
    /\ ~nodes[n].submitted_return_value
    /\ nodes' = [nodes EXCEPT ![n] = SubmitReturnValue(@, v)]
    /\ UNCHANGED <<engineVars, do_not_abort, frames, test_step_stack,
                   sequence, mon_errors, setupVars, evaluated, guards,
                   raised_faults, writers, workerVars>>

NextApi ==
    \/ \E abort \in BOOLEAN : ApiSupervise(abort)
    \/ \E n \in 1..MaxNodes : ApiEnter(n)
    \/ \E n \in 1..MaxNodes, e \in StepExceptions \cup {"None"} : ApiExit(n, e)
    \/ \E n \in 1..MaxNodes, v \in {Plain("data"), Enum("FAILED")} :
           ApiSubmit(n, v)

SpecApi == InitApi /\ [][NextApi]_vars

\* ------------------------------------------------- the pure functions
\* TestResult.merge, infer_test_result, the call of a decorated step whose
\* body returns a value, and RegisteredCallback.register on an unbound
\* slot, each applied once to arguments drawn from bounded sets.
InferValues ==
    {PyNone, Plain("data")} \cup {Enum(r) : r \in TestResult}
        \cup {Custom(r, "data") : r \in TestResult}

InferExceptions ==
    {"None", "FailedTest", "Other", "QuitTestSystem", "AbortTestSequence"}

Pending(fn, args) ==
    [fn |-> fn, args |-> args, done |-> FALSE, value |-> "pending"]

\* TestSequenceSupervision.__init__ (sequence/supervision.py 42-52) and what
\* __enter__, __exit__ and submit_return_value make of it: whether the
\* context was traversed, whether a return value was submitted, the value,
\* and the root list, which nothing appends to (OnTestStepEnterCallback)
SequenceSupervisions ==
    {<<traversed, FALSE, PyNone, <<>> >> : traversed \in BOOLEAN}
        \cup {<<traversed, TRUE, v, <<>> >> :
                  traversed \in BOOLEAN, v \in {PyNone, Enum("FAILED")}}

\* TestStepMetadata.as_test_step_result_info (metadata.py 256-271);
\* "RuntimeError" stands for the raise of one of the properties it reads
RECURSIVE AsTestStepResultInfo(_, _)
AsTestStepResultInfo(ns, n) ==
    IF \/ TestResultOf(ns, n) = "RuntimeError"
       \/ ~ns[n].return_value_is_set
       \/ ~ns[n].log_set
       \/ \E c \in Range(ns[n].children) :
              AsTestStepResultInfo(ns, c) = "RuntimeError"
    THEN "RuntimeError"
    ELSE "TestStepResultInfo"

\* TestSequenceSupervision.test_result_info (sequence/supervision.py 78-81)
SequenceTestResultInfo(ns, traversed, seq) ==
    IF \E n \in Range(seq) : AsTestStepResultInfo(ns, n) = "RuntimeError"
    THEN "RuntimeError"
    ELSE "TestResultInfo"

\* TestSequenceSupervision.test_result (sequence/supervision.py 64-76)
SequenceTestResult(ns, traversed, submitted, return_value, seq) ==
    IF ~traversed THEN "RuntimeError"
    ELSE IF ~submitted THEN "RuntimeError"
    ELSE LET sequence_results == {TestResultOf(ns, n) : n \in Range(seq)}
             inferred_result  == InferTestResult(return_value, "None")
         IN  IF "RuntimeError" \in sequence_results THEN "RuntimeError"
             ELSE MergeAll(sequence_results, inferred_result)

InitPure ==
    /\ pc = "setup"
    /\ Constructed
    /\ registered = {}
    /\ integrated = [slot \in Slots |-> NoFunc]
    /\ api = ApiCall("none", "-", NoFunc, "None", {})
    /\ workers = {}
    /\ NotActivated
    /\ evaluated \in
           {Pending("merge", t) : t \in TestResult \X TestResult \X TestResult}
           \cup {Pending("infer", t) : t \in InferValues \X InferExceptions}
           \cup {Pending("step", t) : t \in InferValues \X BOOLEAN}
           \cup {Pending("call", t) :
                     t \in InferValues \X BOOLEAN \X BOOLEAN}
           \cup {Pending("register", t) : t \in Slots \X Callbacks(MaxParams)}
           \cup {Pending("sequence", t) : t \in SequenceSupervisions}

Evaluate(fn, value) ==
    /\ evaluated.fn = fn
    /\ ~evaluated.done
    /\ evaluated' = [evaluated EXCEPT !.done = TRUE, !.value = value]
    /\ UNCHANGED <<engineVars, stepVars, setupVars, do_not_abort, frames,
                   mon_errors, guards, raised_faults, writers, workerVars>>

\* TestResult.merge on a, b, c in the groupings the algebra speaks of
ApplyMerge ==
    Evaluate("merge",
             LET a == evaluated.args[1]
                 b == evaluated.args[2]
                 c == evaluated.args[3]
             IN  [ab |-> Merge(a, b), ba |-> Merge(b, a), aa |-> Merge(a, a),
                  ab_c |-> Merge(Merge(a, b), c),
                  a_bc |-> Merge(a, Merge(b, c))])

\* infer_test_result(returned, exc_info)
ApplyInferTestResult ==
    Evaluate("infer", InferTestResult(evaluated.args[1], evaluated.args[2]))

\* decorated_test_step.py 50-79 for a root step whose body returns v
\* without calling a step, no quit requested: the result of its node, what
\* the call raises and what it hands to its caller
CallStep(v, abort) ==
    LET created  == SuperviseTestStep(<<>>, <<>>, abort)
        entered  == [created EXCEPT ![1] = EnterMetadata(@)]
        returned == InferReturnValue(v)
        left     == [entered EXCEPT ![1] =
                        LeaveSupervision(@, returned, "None")]
    IN  [test_result |-> TestResultOf(left, 1),
         raised |-> StepCallRaises(left, 1, returned, FALSE, FALSE),
         handed |-> returned]

ApplyCallStep ==
    Evaluate("step", CallStep(evaluated.args[1], evaluated.args[2]))

\* TestSystem.get_active_instance (test_system.py 85-102): what it raises;
\* under_loop says whether a frame of _test_system_exec_loop is among the
\* callers
GetActiveInstanceRaises(under_loop) ==
    IF under_loop THEN "None" ELSE "RuntimeError"

\* DecoratedTestStep.__call__ from its first line on (decorated_test_step.py
\* 50-79) for a step whose body returns v: what the call raises and what it
\* hands to its caller
DecoratedCall(v, abort, under_loop) ==
    IF GetActiveInstanceRaises(under_loop) # "None"
    THEN [raised |-> GetActiveInstanceRaises(under_loop), handed |-> Unset]
    ELSE LET called == CallStep(v, abort)
         IN  [raised |-> called.raised,
              handed |-> IF called.raised = "None" THEN called.handed
                         ELSE Unset]

ApplyDecoratedCall ==
    Evaluate("call", DecoratedCall(evaluated.args[1], evaluated.args[2],
                                   evaluated.args[3]))

\* RegisteredCallback.register(callback) on a slot nothing is registered to
ApplyRegister ==
    Evaluate("register",
             RegisterRaises(FALSE, evaluated.args[1], evaluated.args[2]))

\* the two result properties read on one TestSequenceSupervision
ApplySequenceReads ==
    Evaluate("sequence",
             LET traversed    == evaluated.args[1]
                 submitted    == evaluated.args[2]
                 return_value == evaluated.args[3]
                 seq          == evaluated.args[4]
             IN  [test_result |->
                      SequenceTestResult(nodes, traversed, submitted,
                                         return_value, seq),
                  test_result_info |->
                      SequenceTestResultInfo(nodes, traversed, seq)])

NextPure ==
    \/ ApplyMerge
    \/ ApplyInferTestResult
    \/ ApplyCallStep
    \/ ApplyDecoratedCall
    \/ ApplyRegister
    \/ ApplySequenceReads

SpecPure == InitPure /\ [][NextPure]_vars

\* ------------------------------------------------------------ setup time
\* The test system before it is activated: functions are registered to the
\* slots through the decorators, the registry is checked, and
\* TestSystem.__call__ starts the workers.
SetupCallbacks ==
    {<<>>,
     <<[kind |-> "keyword", requests |-> "exit_stack",
        has_default |-> FALSE]>>}

InitSetup ==
    /\ pc = "setup"
    /\ Constructed
    /\ registered = {}
    /\ integrated = [slot \in Slots |-> NoFunc]
    /\ api = ApiCall("none", "-", NoFunc, "None", {})
    /\ workers = {}
    /\ NotActivated
    /\ evaluated = NotEvaluated

\* the slot is marked as registered before the callback is bound
Register_MarksFirst(slot, cb) ==
    /\ pc = "setup"
    /\ LET raised == RegisterRaises(slot \in registered, slot, cb)
       IN  /\ api' = ApiCall("register", slot, Func(cb), raised, {})
           /\ registered' = IF raised = "RuntimeError" THEN registered
                            ELSE registered \cup {slot}
           /\ integrated' = IF raised = "None"
                            THEN [integrated EXCEPT ![slot] = Func(cb)]
                            ELSE integrated
    /\ UNCHANGED <<engineVars, stepVars, do_not_abort, frames, mon_errors,
                   workers, evaluated, guards, raised_faults, writers,
                   workerVars>>

\* the decorators of TestSystem (test_system.py 177-349):
\* RegisteredCallback.register(callback) of the slot
Register(slot, cb) ==
    /\ pc = "setup"
    /\ LET raised == RegisterRaises(slot \in registered, slot, cb)
       IN  /\ api' = ApiCall("register", slot, Func(cb), raised, {})
           /\ IF raised = "None"
              THEN /\ integrated' = [integrated EXCEPT ![slot] = Func(cb)]
                   /\ registered' = registered \cup {slot}
              ELSE UNCHANGED <<integrated, registered>>
    /\ UNCHANGED <<engineVars, stepVars, do_not_abort, frames, mon_errors,
                   workers, evaluated, guards, raised_faults, writers,
                   workerVars>>

\* CallbackRegistry.check called on its own
Check ==
    /\ pc = "setup"
    /\ LET checked == CheckRegistry(registered, 1, {})
       IN  api' = ApiCall("check", "-", NoFunc, checked.raised,
                          checked.warned)
    /\ UNCHANGED <<engineVars, stepVars, do_not_abort, frames, mon_errors,
                   registered, integrated, workers, evaluated, guards,
                   raised_faults, writers, workerVars>>

\* TestSystem.__call__, test_system.py 453-464: check(), then the monitor
\* worker and the engine worker are started
Activate ==
    /\ pc = "setup"
    /\ LET checked == CheckRegistry(registered, 1, {})
       IN  /\ api' = ApiCall("activate", "-", NoFunc, checked.raised,
                             checked.warned)
           /\ IF checked.raised = "None"
              THEN /\ pc' = "start"
                   /\ workers' = {"monitor", "engine"}
                   /\ ctl_pc' = "waiting"
                   /\ mon_pc' = "entry"
              ELSE UNCHANGED <<pc, workers, ctl_pc, mon_pc>>
    /\ UNCHANGED <<running, quit_requested, fatal, system_setup_data,
                   uut_setup_data, scopes, iter, calls, handled, released,
                   seq_entered, stepVars, do_not_abort, frames, mon_errors,
                   registered, integrated, evaluated, guards, raised_faults,
                   writers, monitor_is_running, checks, tasks, tick,
                   dead_tasks>>

NextSetup ==
    \/ \E slot \in Slots, cb \in SetupCallbacks : Register(slot, cb)
    \/ Check
    \/ Activate

SpecSetup == InitSetup /\ [][NextSetup]_vars

\* ------------------------------------------------------ the three workers
\* TestSystem.__call__ on the controller thread, TestSystemMonitor.monitor_loop
\* on the monitor worker and _test_system_exec_loop on the engine worker,
\* interleaved.  The slot callbacks call no decorated step here.
MaxFaults == 2      \* MonitorErrors the polling loop records in one run

\* the worker handles given to add_task, the predicates given to
\* add_monitor_callback
TaskHandles == {"w1", "w2"}
CheckHandles == {"check"}

InitWorkers ==
    /\ pc = "setup"
    /\ Constructed
    /\ registered \in {{"test_sequence"}, Slots}
    /\ integrated = [slot \in Slots |->
                         IF slot \in registered THEN Func(<<>>) ELSE NoFunc]
    /\ api = ApiCall("none", "-", NoFunc, "None", {})
    /\ workers = {}
    /\ evaluated = NotEvaluated
    /\ NotActivated

\* TestSystemMonitor.add_task, before the system is started
AddTask(task) ==
    /\ ctl_pc = "idle"
    /\ task \notin Range(tasks)
    /\ tasks' = Append(tasks, task)
    /\ writers' = Wrote("tasks", "controller")
    /\ UNCHANGED <<engineVars, stepVars, setupVars, do_not_abort, frames,
                   mon_errors, evaluated, guards, raised_faults, ctl_pc,
                   mon_pc, monitor_is_running, checks, tick, dead_tasks>>

\* TestSystemMonitor.remove_task, before the system is started
RemoveTask(task) ==
    /\ ctl_pc = "idle"
    /\ task \in Range(tasks)
    /\ tasks' = SelectSeq(tasks, LAMBDA t : t # task)
    /\ writers' = Wrote("tasks", "controller")
    /\ UNCHANGED <<engineVars, stepVars, setupVars, do_not_abort, frames,
                   mon_errors, evaluated, guards, raised_faults, ctl_pc,
                   mon_pc, monitor_is_running, checks, tick, dead_tasks>>

\* TestSystemMonitor.add_monitor_callback, before the system is started
AddMonitorCallback(callback) ==
    /\ ctl_pc = "idle"
    /\ callback \notin checks
    /\ checks' = checks \cup {callback}
    /\ writers' = Wrote("checks", "controller")
    /\ UNCHANGED <<engineVars, stepVars, setupVars, do_not_abort, frames,
                   mon_errors, evaluated, guards, raised_faults, ctl_pc,
                   mon_pc, monitor_is_running, tasks, tick, dead_tasks>>

\* TestSystemMonitor.remove_monitor_callback, before the system is started
RemoveMonitorCallback(callback) ==
    /\ ctl_pc = "idle"
    /\ callback \in checks
    /\ checks' = checks \ {callback}
    /\ writers' = Wrote("checks", "controller")
    /\ UNCHANGED <<engineVars, stepVars, setupVars, do_not_abort, frames,
                   mon_errors, evaluated, guards, raised_faults, ctl_pc,
                   mon_pc, monitor_is_running, tasks, tick, dead_tasks>>

\* test_system.py 453-459: check(), then the monitor thread is started
StartMonitor ==
    /\ ctl_pc = "idle"
    /\ LET checked == CheckRegistry(registered, 1, {})
       IN  /\ api' = ApiCall("activate", "-", NoFunc, checked.raised,
                             checked.warned)
           /\ IF checked.raised = "None"
              THEN /\ ctl_pc' = "start_engine"
                   /\ mon_pc' = "entry"
                   /\ workers' = {"monitor"}
              ELSE /\ ctl_pc' = "returned"
                   /\ UNCHANGED <<mon_pc, workers, tick, dead_tasks>>
    /\ UNCHANGED <<engineVars, stepVars, do_not_abort, frames, mon_errors,
                   registered, integrated, evaluated, guards, raised_faults,
                   writers, monitor_is_running, checks, tasks, tick,
                   dead_tasks>>

\* test_system.py 460-464: the engine thread is started
StartEngine ==
    /\ ctl_pc = "start_engine"
    /\ ctl_pc' = "waiting"
    /\ workers' = workers \cup {"engine"}
    /\ pc' = "start"
    /\ UNCHANGED <<running, quit_requested, fatal, system_setup_data,
                   uut_setup_data, scopes, iter, calls, handled, released,
                   seq_entered, stepVars, do_not_abort, frames, mon_errors,
                   registered, integrated, api, evaluated, guards,
                   raised_faults, writers, mon_pc, monitor_is_running, checks,
                   tasks, tick, dead_tasks>>

\* test_system.py 466-468, 475: the polling of the two flags ends
WaitEnds ==
    /\ ctl_pc = "waiting"
    /\ quit_requested \/ fatal
    /\ ctl_pc' = "quit_monitor"
    /\ UNCHANGED <<engineVars, stepVars, setupVars, do_not_abort, frames,
                   mon_errors, evaluated, guards, raised_faults, writers,
                   mon_pc, monitor_is_running, checks, tasks, tick,
                   dead_tasks>>

\* test_system.py 469-473: Ctrl-C while the controller polls
KeyboardInterrupt ==
    /\ ctl_pc = "waiting"
    /\ ctl_pc' = "quit_monitor"
    /\ quit_requested' = TRUE
    /\ running' = FALSE
    /\ writers' = [writers EXCEPT
                      !["quit_requested"] = @ \cup {"controller"},
                      !["running"] = @ \cup {"controller"}]
    /\ UNCHANGED <<pc, fatal, system_setup_data, uut_setup_data, scopes, iter,
                   calls, handled, released, seq_entered, stepVars, setupVars,
                   do_not_abort, frames, mon_errors, evaluated, guards,
                   raised_faults, mon_pc, monitor_is_running, checks, tasks,
                   tick, dead_tasks>>

\* test_system.py 49-51, 131-133: running is a shared Value handed to the
\* constructor; its owner outside the three threads stores False in it
\* while the system is activated
ClearRunning ==
    /\ ctl_pc = "waiting"
    /\ running
    /\ running' = FALSE
    /\ writers' = Wrote("running", "external")
    /\ UNCHANGED <<pc, quit_requested, fatal, system_setup_data,
                   uut_setup_data, scopes, iter, calls, handled, released,
                   seq_entered, stepVars, setupVars, do_not_abort, frames,
                   mon_errors, evaluated, guards, raised_faults, workerVars>>

\* test_system.py 476 with monitor.py 74-75: TestSystemMonitor.quit
QuitMonitor ==
    /\ ctl_pc = "quit_monitor"
    /\ ctl_pc' = "join_monitor"
    /\ monitor_is_running' = FALSE
    /\ writers' = Wrote("monitor_is_running", "controller")
    /\ UNCHANGED <<engineVars, stepVars, setupVars, do_not_abort, frames,
                   mon_errors, evaluated, guards, raised_faults, mon_pc,
                   checks, tasks, tick, dead_tasks>>

\* test_system.py 477: join() returns once monitor_loop has returned or
\* has been left by an exception
JoinMonitor ==
    /\ ctl_pc = "join_monitor"
    /\ mon_pc \in {"done", "raised"}
    /\ ctl_pc' = "join_engine"
    /\ UNCHANGED <<engineVars, stepVars, setupVars, do_not_abort, frames,
                   mon_errors, evaluated, guards, raised_faults, writers,
                   mon_pc, monitor_is_running, checks, tasks, tick,
                   dead_tasks>>

\* test_system.py 478: join(timeout=1) returns, the engine stopped or not
JoinEngine ==
    /\ ctl_pc = "join_engine"
    /\ ctl_pc' = "returned"
    /\ UNCHANGED <<engineVars, stepVars, setupVars, do_not_abort, frames,
                   mon_errors, evaluated, guards, raised_faults, writers,
                   mon_pc, monitor_is_running, checks, tasks, tick,
                   dead_tasks>>

\* monitor.py 78
MonitorLoopEntry ==
    /\ mon_pc = "entry"
    /\ mon_pc' = "loop"
    /\ monitor_is_running' = TRUE
    /\ writers' = Wrote("monitor_is_running", "monitor")
    /\ UNCHANGED <<engineVars, stepVars, setupVars, do_not_abort, frames,
                   mon_errors, evaluated, guards, raised_faults, ctl_pc,
                   checks, tasks, tick, dead_tasks>>

\* monitor.py 79: while self._monitor_is_running
MonitorLoopTest ==
    /\ mon_pc = "loop"
    /\ mon_pc' = IF monitor_is_running THEN "tick" ELSE "done"
    /\ UNCHANGED <<engineVars, stepVars, setupVars, do_not_abort, frames,
                   mon_errors, evaluated, guards, raised_faults, writers,
                   ctl_pc, monitor_is_running, checks, tasks, tick,
                   dead_tasks>>

\* every dead task is recorded once more
SetErrorOn_Replaces(errors, task) == <<task>>

\* TestSystemMonitor.set_error on the error list; the MonitorError is
\* written as the task it reports (its origin is the name of the polling
\* thread, whichever task is dead)
SetErrorOn(errors, task) == Append(errors, task)

\* monitor.py 86-99: the tasks from position i of the registry on are
\* polled; dead are the tasks whose is_alive() is false
RECURSIVE PollTasks(_, _, _, _)
PollTasks(errors, registry, dead, i) ==
    IF i > Len(registry) THEN errors
    ELSE PollTasks(IF registry[i] \in dead
                   THEN SetErrorOn(errors, registry[i])
                   ELSE errors,
                   registry, dead, i + 1)

\* monitor.py 80-99: one tick of the polling loop: the sleep, the
\* predicates (those in failing return False; their hooks change nothing
\* modelled here) and the tasks
MonitorTick(failing, dead) ==
    /\ mon_pc = "tick"
    /\ failing \subseteq checks
    /\ dead \subseteq Range(tasks)
    /\ Len(mon_errors) + Cardinality(dead) <= MaxFaults
    /\ mon_pc' = "loop"
    /\ mon_errors' = PollTasks(mon_errors, tasks, dead, 1)
    /\ writers' = IF dead = {} THEN writers
                  ELSE Wrote("mon_errors", "monitor")
    /\ UNCHANGED <<engineVars, stepVars, setupVars, do_not_abort, frames,
                   evaluated, guards, raised_faults, ctl_pc,
                   monitor_is_running, checks, tasks, tick, dead_tasks>>

ControllerThread ==
    \/ StartMonitor
    \/ StartEngine
    \/ WaitEnds
    \/ QuitMonitor
    \/ JoinMonitor
    \/ JoinEngine

MonitorWorker ==
    \/ MonitorLoopEntry
    \/ MonitorLoopTest
    \/ \E failing \in SUBSET CheckHandles, dead \in SUBSET TaskHandles :
           MonitorTick(failing, dead)

EngineWorker ==
    \/ SystemSetupInvoke
    \/ SystemSetupDone
    \/ LoopCheck
    \/ RaiseAccumulatedErrors1
    \/ BedPrepInvoke
    \/ BedPrepDone
    \/ UutSetupInvoke
    \/ UutSetupDone
    \/ RaiseAccumulatedErrors2
    \/ SetupSupervision
    \/ Teardown
    \/ CallbackReturns(PyNone)
    \/ \E e \in CallbackExceptions : CallbackRaises(e)

NextWorkers ==
    \/ \E task \in TaskHandles : AddTask(task)
    \/ \E task \in TaskHandles : RemoveTask(task)
    \/ \E callback \in CheckHandles : AddMonitorCallback(callback)
    \/ \E callback \in CheckHandles : RemoveMonitorCallback(callback)
    \/ Quit
    \/ KeyboardInterrupt
    \/ ClearRunning
    \/ ControllerThread
    \/ MonitorWorker
    \/ EngineWorker

\* every started thread is scheduled again and again; the exit button,
\* Ctrl-C and the registrations are choices of the user
SpecWorkers ==
    /\ InitWorkers
    /\ [][NextWorkers]_vars
    /\ WF_vars(ControllerThread)
    /\ WF_vars(MonitorWorker)
    /\ WF_vars(EngineWorker)

\* ------------------------------------------ the registries during a run
\* The system is activated and monitor_loop runs on its thread while user
\* code, in the callbacks and steps of the engine worker, enters and leaves
\* the with blocks of TestSystemMonitor.task and TestSystemMonitor.monitor.
\* A tick is followed statement by statement: neither registry is locked.

\* the predicates given to monitor(): "hooked" with an on_error_callback,
\* "check" without
MonitorChecks == {"check", "hooked"}

OnErrorCallback(callback) == IF callback = "hooked" THEN "hook" ELSE "None"

InitMonitor ==
    /\ pc = "start"
    /\ Constructed
    /\ registered = Slots
    /\ integrated = [slot \in Slots |-> Func(<<>>)]
    /\ api = ApiCall("activate", "-", NoFunc, "None", {})
    /\ workers = {"monitor", "engine"}
    /\ evaluated = NotEvaluated
    /\ ctl_pc = "waiting"
    /\ mon_pc = "entry"
    /\ monitor_is_running = FALSE
    /\ checks = {}
    /\ tasks = <<>>
    /\ tick = NoTick
    /\ dead_tasks = {}

\* monitor.py 62-64: "with monitor.task(task)" is entered
TaskScopeEnter(task) ==
    /\ task \notin Range(tasks)
    /\ tasks' = Append(tasks, task)
    /\ writers' = Wrote("tasks", "engine")
    /\ UNCHANGED <<engineVars, stepVars, setupVars, do_not_abort, frames,
                   mon_errors, evaluated, guards, raised_faults, ctl_pc,
                   mon_pc, monitor_is_running, checks, tick, dead_tasks>>

\* monitor.py 66 with 58-60: the with block is left; list.remove
TaskScopeExit(task) ==
    /\ task \in Range(tasks)
    /\ tasks' = SelectSeq(tasks, LAMBDA t : t # task)
    /\ tick' = [tick EXCEPT !.stable_tasks = @ \ {task}]
    /\ writers' = Wrote("tasks", "engine")
    /\ UNCHANGED <<engineVars, stepVars, setupVars, do_not_abort, frames,
                   mon_errors, evaluated, guards, raised_faults, ctl_pc,
                   mon_pc, monitor_is_running, checks, dead_tasks>>

\* monitor.py 68-70: "with monitor.monitor(callback, hook)" is entered
MonitorScopeEnter(callback) ==
    /\ callback \notin checks
    /\ checks' = checks \cup {callback}
    /\ writers' = Wrote("checks", "engine")
    /\ UNCHANGED <<engineVars, stepVars, setupVars, do_not_abort, frames,
                   mon_errors, evaluated, guards, raised_faults, ctl_pc,
                   mon_pc, monitor_is_running, tasks, tick, dead_tasks>>

\* monitor.py 72 with 51-52: the with block is left; dict.pop
MonitorScopeExit(callback) ==
    /\ callback \in checks
    /\ checks' = checks \ {callback}
    /\ tick' = [tick EXCEPT !.stable_checks = @ \ {callback}]
    /\ writers' = Wrote("checks", "engine")
    /\ UNCHANGED <<engineVars, stepVars, setupVars, do_not_abort, frames,
                   mon_errors, evaluated, guards, raised_faults, ctl_pc,
                   mon_pc, monitor_is_running, tasks, dead_tasks>>

\* a worker thread or process ends: its is_alive() is false from now on
TaskDies(task) ==
    /\ task \notin dead_tasks
    /\ dead_tasks' = dead_tasks \cup {task}
    /\ UNCHANGED <<engineVars, stepVars, setupVars, do_not_abort, frames,
                   mon_errors, evaluated, guards, raised_faults, writers,
                   ctl_pc, mon_pc, monitor_is_running, checks, tasks, tick>>

\* monitor.py 80: the sleep is over
TickBegins ==
    /\ mon_pc = "tick"
    /\ mon_pc' = "callbacks"
    /\ tick' = [iterating |-> FALSE, size |-> 0, visited |-> {}, failed |-> {},
                hooks |-> <<>>, i |-> 1,
                base |-> Len(mon_errors),
                stable_checks |-> checks, stable_tasks |-> Range(tasks),
                dead_at_start |-> dead_tasks, over |-> FALSE]
    /\ UNCHANGED <<engineVars, stepVars, setupVars, do_not_abort, frames,
                   mon_errors, evaluated, guards, raised_faults, writers,
                   ctl_pc, monitor_is_running, checks, tasks, dead_tasks>>

\* monitor.py 81-85: the iterator of _callbacks.items(), which notes the
\* size of the dict when the for statement creates it, is asked for the
\* next item.  A dict whose size has changed since makes it raise
\* RuntimeError, which nothing in monitor_loop catches; otherwise the next
\* predicate is called (holds is what it returns) and, for False, its hook
\* if it has one
NextCallback(holds) ==
    /\ mon_pc = "callbacks"
    /\ LET size == IF tick.iterating THEN tick.size ELSE Cardinality(checks)
       IN  IF Cardinality(checks) # size
           THEN mon_pc' = "raised" /\ tick' = tick
           ELSE IF checks \subseteq tick.visited
           THEN mon_pc' = "tasks" /\ tick' = tick
           ELSE \E callback \in checks \ tick.visited :
                   /\ mon_pc' = mon_pc
                   /\ tick' = [tick EXCEPT
                          !.iterating = TRUE,
                          !.size = size,
                          !.visited = @ \cup {callback},
                          !.failed = IF holds THEN @ ELSE @ \cup {callback},
                          !.hooks =
                              IF ~holds /\ OnErrorCallback(callback) # "None"
                              THEN Append(@, callback) ELSE @]
    /\ UNCHANGED <<engineVars, stepVars, setupVars, do_not_abort, frames,
                   mon_errors, evaluated, guards, raised_faults, writers,
                   ctl_pc, monitor_is_running, checks, tasks, dead_tasks>>

\* monitor.py 86-99: the list iterator yields the item at its index, if
\* the list is that long now, and the task is polled
NextTask ==
    /\ mon_pc = "tasks"
    /\ IF tick.i > Len(tasks)
       THEN /\ mon_pc' = "loop"
            /\ tick' = [tick EXCEPT !.over = TRUE]
            /\ UNCHANGED <<mon_errors, writers>>
       ELSE LET task == tasks[tick.i]
            IN  /\ mon_pc' = mon_pc
                /\ tick' = [tick EXCEPT !.i = @ + 1]
                /\ IF task \in dead_tasks
                   THEN /\ Len(mon_errors) < MaxFaults
                        /\ mon_errors' = SetErrorOn(mon_errors, task)
                        /\ writers' = Wrote("mon_errors", "monitor")
                   ELSE UNCHANGED <<mon_errors, writers>>
    /\ UNCHANGED <<engineVars, stepVars, setupVars, do_not_abort, frames,
                   evaluated, guards, raised_faults, ctl_pc,
                   monitor_is_running, checks, tasks, dead_tasks>>

NextMonitor ==
    \/ \E task \in TaskHandles : TaskScopeEnter(task)
    \/ \E task \in TaskHandles : TaskScopeExit(task)
    \/ \E callback \in MonitorChecks : MonitorScopeEnter(callback)
    \/ \E callback \in MonitorChecks : MonitorScopeExit(callback)
    \/ \E task \in TaskHandles : TaskDies(task)
    \/ MonitorLoopEntry
    \/ MonitorLoopTest
    \/ TickBegins
    \/ \E holds \in BOOLEAN : NextCallback(holds)
    \/ NextTask

SpecMonitor == InitMonitor /\ [][NextMonitor]_vars

\* ------------------------------------------------ reading a TestStepMetadata
\* metadata.py 173-226: each getter raises RuntimeError on its own condition
ReadStartTime(m)   == IF ~m.start_set THEN "RuntimeError" ELSE "value"
ReadEndTime(m)     == IF ~m.end_set THEN "RuntimeError" ELSE "value"
ReadReturnValue(m) == IF ~m.return_value_is_set THEN "RuntimeError" ELSE "value"
ReadExcInfo(m)     == IF ~m.completed THEN "RuntimeError" ELSE "value"
ReadLogMessages(m) == IF ~m.log_set THEN "RuntimeError" ELSE "value"

\* TestStepMetadata.descendants
RECURSIVE Descendants(_, _)
Descendants(ns, n) ==
    Range(ns[n].children) \cup
        UNION {Descendants(ns, c) : c \in Range(ns[n].children)}

\* ------------------------------------------------------------- claims
SlotRank(slot) ==
    CASE slot = "system_setup"         -> 0
      [] slot = "test_bed_preparation" -> 1
      [] slot = "uut_setup"            -> 2
      [] slot = "test_sequence"        -> 3
      [] slot = "uut_recovery"         -> 4
      [] slot = "uut_result_handler"   -> 5

CallsOf(slot, i) ==
    {k \in DOMAIN calls : calls[k].slot = slot /\ calls[k].iter = i}

Finished(n) == nodes[n].call # "running"

C1_SlotOrder ==
    /\ \A k \in DOMAIN calls : (calls[k].slot = "system_setup") <=> (k = 1)
    /\ pc # "start" => Len(calls) >= 1
    /\ \A j, k \in DOMAIN calls :
           j < k => /\ calls[j].iter <= calls[k].iter
                    /\ calls[j].iter = calls[k].iter
                           => SlotRank(calls[j].slot) < SlotRank(calls[k].slot)

\* C1: SystemSetup is invoked exactly once and before every other slot; in
\* an iteration the slots are invoked in the order TestBedPreparation,
\* UutSetup, TestSequence, UutRecovery, UutResultHandler, and no slot of a
\* later iteration precedes a slot of an earlier one; once the engine has
\* stopped no slot is invoked.
C1_SlotInvocationOrder ==
    /\ []C1_SlotOrder
    /\ [][pc = "stopped" => calls' = calls]_vars

C1_Witness ==
    /\ pc = "stopped"
    /\ Len(calls) = 3
    /\ calls[2].slot = "test_bed_preparation"
    /\ calls[3].slot = "uut_setup"

\* C2: when the engine has stopped, every iteration whose SEQUENCE phase
\* was entered has had UutRecovery invoked exactly once, with the results
\* of SystemSetup and UutSetup.
C2_RecoveryAlwaysRuns ==
    pc = "stopped" =>
        \A i \in seq_entered :
            /\ Cardinality(CallsOf("uut_recovery", i)) = 1
            /\ \A k \in CallsOf("uut_recovery", i) :
                   /\ calls[k].system_setup_data = system_setup_data
                   /\ calls[k].uut_setup_data = uut_setup_data

\* C3: when the engine has stopped, every iteration in which UutSetup
\* returned and the sequence was due has had UutRecovery and
\* UutResultHandler invoked exactly once each, both with the value
\* SystemSetup returned and the value UutSetup returned.
C3_HandlersReceiveResults ==
    pc = "stopped" =>
        \A i \in seq_entered :
            \A slot \in {"uut_recovery", "uut_result_handler"} :
                /\ Cardinality(CallsOf(slot, i)) = 1
                /\ \A k \in CallsOf(slot, i) :
                       /\ calls[k].system_setup_data = system_setup_data
                       /\ calls[k].uut_setup_data = uut_setup_data

\* C4: once the call of an abort-on-error step whose body raised FailedTest
\* has ended, its node has result FAILED, the call raised
\* AbortTestSequence, no later sibling was entered, and a stopped engine has
\* invoked UutRecovery.
C4_FailedStepAborts ==
    \A n \in DOMAIN nodes :
        (nodes[n].abort_on_error /\ nodes[n].body = "FailedTest"
            /\ Finished(n) /\ ~quit_requested)
        => /\ TestResultOf(nodes, n) = "FAILED"
           /\ nodes[n].call = "AbortTestSequence"
           /\ \A m \in DOMAIN nodes :
                  m > n => nodes[m].parent # nodes[n].parent
           /\ pc = "stopped" => \E k \in DOMAIN calls :
                                    calls[k].slot = "uut_recovery"

\* C5: once the call of a step that is not abort-on-error and whose body
\* raised an exception other than the control signals has ended, the
\* exception is attached to the node and the call has returned to its
\* caller.
C5_StepFailureIsContained ==
    \A n \in DOMAIN nodes :
        (~nodes[n].abort_on_error
            /\ nodes[n].body \in {"FailedTest", "Other", "RuntimeError"}
            /\ Finished(n) /\ ~quit_requested)
        => /\ nodes[n].exc_info = nodes[n].body
           /\ nodes[n].call = "returned"

\* C6: a control signal that ends the body of a step leaves the call of
\* that step as the same signal, and the step stack is empty again when no
\* step call is running.
C6_SignalsPropagate ==
    /\ \A n \in DOMAIN nodes :
           (nodes[n].body \in {"AbortTestSequence", "QuitTestSystem"}
               /\ Finished(n))
           => nodes[n].call = nodes[n].body
    /\ Len(frames) <= 1 => test_step_stack = <<>>

\* C7: a completed step whose body returned plain data and one of whose
\* children failed with an unexpected exception has test_result EXCEPTION.
C7_ParentOfFailedChild ==
    \A n \in DOMAIN nodes :
        (nodes[n].completed /\ nodes[n].body = "returned"
            /\ nodes[n].return_value.tag = "plain"
            /\ \E c \in Range(nodes[n].children) :
                   nodes[c].exc_info = "Other" /\ Finished(c))
        => TestResultOf(nodes, n) = "EXCEPTION"

C8_CompletedIffBoth ==
    \A n \in DOMAIN nodes :
        nodes[n].completed <=>
            (nodes[n].end_set /\ nodes[n].return_value_is_set)

\* C8: completed is true exactly when the scope has been left and the
\* return value has been submitted, in whichever order, and once true it
\* stays true.
C8_CompletedFlag ==
    /\ []C8_CompletedIffBoth
    /\ [][\A n \in DOMAIN nodes :
              nodes[n].completed => nodes'[n].completed]_vars

C8_Witness ==
    /\ Len(nodes) = 2
    /\ nodes[1].completed
    /\ nodes[2].return_value_is_set
    /\ ~nodes[2].end_set
    /\ test_step_stack = <<2>>

\* C9: every read of a timing, result or log field of a node that is not
\* completed raises.
C9_ReadsFailBeforeCompleted ==
    \A n \in DOMAIN nodes :
        ~nodes[n].completed =>
            /\ ReadStartTime(nodes[n]) = "RuntimeError"
            /\ ReadEndTime(nodes[n]) = "RuntimeError"
            /\ ReadReturnValue(nodes[n]) = "RuntimeError"
            /\ ReadExcInfo(nodes[n]) = "RuntimeError"
            /\ ReadLogMessages(nodes[n]) = "RuntimeError"
            /\ TestResultOf(nodes, n) = "RuntimeError"

\* C10: the test_result of a completed node is a TestResult that is at
\* least its own inferred result and at least the test_result of each of
\* its descendants.
C10_ResultIsMonotone ==
    \A n \in DOMAIN nodes :
        nodes[n].completed =>
            LET r == TestResultOf(nodes, n)
            IN  /\ r \in TestResult
                /\ r = Merge(r, InferTestResult(nodes[n].return_value,
                                                nodes[n].exc_info))
                /\ \A d \in Descendants(nodes, n) :
                       /\ TestResultOf(nodes, d) \in TestResult
                       /\ r = Merge(r, TestResultOf(nodes, d))

C11_Rank(r) ==
    CASE r = "SUCCESS" -> 0 [] r = "FAILED" -> 1 [] r = "EXCEPTION" -> 2

\* C11: merge is commutative, idempotent and associative, and merge(a, b)
\* is the larger of a and b under Success < Failed < Exception.
C11_MergeIsMax ==
    (evaluated.fn = "merge" /\ evaluated.done) =>
        LET a == evaluated.args[1]
            b == evaluated.args[2]
            v == evaluated.value
        IN  /\ v.ab = v.ba
            /\ v.aa = a
            /\ v.ab_c = v.a_bc
            /\ v.ab \in {a, b}
            /\ C11_Rank(v.ab) >= C11_Rank(a)
            /\ C11_Rank(v.ab) >= C11_Rank(b)

C11_Witness ==
    /\ evaluated.fn = "merge"
    /\ evaluated.done
    /\ evaluated.args = <<"FAILED", "EXCEPTION", "SUCCESS">>
    /\ evaluated.value.ab_c = "EXCEPTION"

\* C12: infer_test_result returns the result a returned TestResult or
\* CustomTestResult carries, whatever the exception; otherwise FAILED for
\* FailedTest, EXCEPTION for any other exception and SUCCESS without an
\* exception; it yields a TestResult for every combination.
C12_InferTestResult ==
    (evaluated.fn = "infer" /\ evaluated.done) =>
        LET returned == evaluated.args[1]
            exc_info == evaluated.args[2]
            v        == evaluated.value
        IN  /\ v \in TestResult
            /\ returned.tag \in {"result", "custom"} => v = returned.res
            /\ (returned.tag = "plain" /\ exc_info = "FailedTest")
                   => v = "FAILED"
            /\ (returned.tag = "plain"
                    /\ exc_info \notin {"None", "FailedTest"})
                   => v = "EXCEPTION"
            /\ (returned.tag = "plain" /\ exc_info = "None") => v = "SUCCESS"

C12_Witness ==
    /\ evaluated.fn = "infer"
    /\ evaluated.done
    /\ evaluated.args = <<Custom("SUCCESS", "data"), "Other">>
    /\ evaluated.value = "SUCCESS"

\* C13: a step whose body returns CustomTestResult(r, v) has a node with
\* own result r, its call raises AbortTestSequence when r is not SUCCESS and
\* the step is abort-on-error, and the call hands v to its caller.
C13_CustomResultBypassesInference ==
    (evaluated.fn = "step" /\ evaluated.done
        /\ evaluated.args[1].tag = "custom") =>
        LET r     == evaluated.args[1].res
            v     == evaluated.args[1].data
            abort == evaluated.args[2]
        IN  /\ evaluated.value.test_result = r
            /\ evaluated.value.raised =
                   IF abort /\ r # "SUCCESS" THEN "AbortTestSequence"
                   ELSE "None"
            /\ evaluated.value.handed = Plain(v)

\* C14: a register call on a slot that already has a function raises, and
\* leaves the registered flags and the integrated functions of all slots as
\* they were, so that the slot still invokes the first function.
C14_SecondRegistrationFails ==
    [][(api'.op = "register" /\ api'.slot \in registered)
          => /\ api'.raised = "RuntimeError"
             /\ registered' = registered
             /\ integrated' = integrated
             /\ ~integrated'[api'.slot].none]_vars

C14_Witness ==
    /\ api.op = "register"
    /\ api.slot = "system_setup"
    /\ api.raised = "RuntimeError"
    /\ api.callback = Func(<<>>)
    /\ integrated["system_setup"] # api.callback
    /\ ~integrated["system_setup"].none

\* C15: check() raises exactly when TestSequence has no function
\* registered; otherwise it returns normally, having warned about exactly
\* the slots without a function.
C15_CheckFailsIffMandatoryUnbound ==
    api.op = "check" =>
        /\ api.raised \in {"None", "RuntimeError"}
        /\ api.raised = "RuntimeError" <=> "test_sequence" \notin registered
        /\ api.raised = "None" => api.warned = Slots \ registered

C15_Witness ==
    /\ api.op = "check"
    /\ api.raised = "None"
    /\ registered = {"test_sequence"}
    /\ Cardinality(api.warned) = 5

\* C16: activating a test system without a TestSequence function raises
\* TestSystemIntrospectionError to the caller; no worker is started and no
\* slot is invoked.
C16_ActivationWithoutSequence ==
    (api.op = "activate" /\ "test_sequence" \notin registered) =>
        /\ api.raised = "TestSystemIntrospectionError"
        /\ workers = {}
        /\ calls = <<>>

\* the four defects of a callback for a slot that the specification names
C17_Defect(slot, cb) ==
    \/ \E i \in DOMAIN cb :
           cb[i].requests \in WellKnownArgument \ NativeArgs(slot)
    \/ \E i, j \in DOMAIN cb :
           i # j /\ cb[i].requests = cb[j].requests
               /\ cb[i].requests # "none"
    \/ \E i \in DOMAIN cb : cb[i].kind \in {"var_positional", "var_keyword"}
    \/ \E i \in DOMAIN cb :
           ~cb[i].has_default /\ cb[i].requests \notin NativeArgs(slot)

\* C17 as stated: registering a callback to an unbound slot fails exactly
\* when the callback has one of the four defects.
C17_RegisterFailsExactlyOnDefect ==
    (evaluated.fn = "register" /\ evaluated.done) =>
        (evaluated.value # "None"
            <=> C17_Defect(evaluated.args[1], evaluated.args[2]))

\* C17: registering a callback to an unbound slot fails exactly when the
\* callback has one of the four defects or declares a positional-only
\* parameter; every other callback is registered.
C17_RegisterFailsIff ==
    (evaluated.fn = "register" /\ evaluated.done) =>
        (evaluated.value # "None"
            <=> \/ C17_Defect(evaluated.args[1], evaluated.args[2])
                \/ \E i \in DOMAIN evaluated.args[2] :
                       evaluated.args[2][i].kind = "positional_only")

C17_Witness ==
    /\ evaluated.fn = "register"
    /\ evaluated.done
    /\ evaluated.args[1] = "system_setup"
    /\ evaluated.args[2] = <<[kind |-> "positional_only",
                              requests |-> "exit_stack",
                              has_default |-> FALSE]>>
    /\ evaluated.value = "AssertionError"

\* C18: registering to TestSequence a callback whose parameters request
\* the exit stack, alone or with the system-setup data and the UUT-setup
\* data, succeeds.
C18_SequenceMayRequestExitStack ==
    LET cb == evaluated.args[2]
        requests_exit_stack ==
            /\ evaluated.args[1] = "test_sequence"
            /\ \E i \in DOMAIN cb : cb[i].requests = "exit_stack"
            /\ \A j \in DOMAIN cb :
                   /\ cb[j].kind = "keyword"
                   /\ cb[j].requests \in {"exit_stack", "system_setup_data",
                                          "uut_setup_data"}
            /\ \A k, l \in DOMAIN cb :
                   k # l => cb[k].requests # cb[l].requests
    IN  (evaluated.fn = "register" /\ evaluated.done /\ requests_exit_stack)
            => evaluated.value = "None"

\* C19: the invocation of a slot without a registered function returns
\* None at once, raising nothing and running no body; and when the engine
\* has stopped, every iteration whose unbound UutSetup returned and whose
\* SEQUENCE phase was entered has invoked TestSequence with None as the
\* UutSetup result.
C19_UnboundSlotIsNeutral ==
    /\ (Len(frames) > 0 /\ frames[1].slot \notin registered)
           => /\ Len(frames) = 1
              /\ frames[1].pc = "done"
              /\ frames[1].returned = PyNone
              /\ frames[1].exc = "None"
    /\ "system_setup" \notin registered
           => \A k \in DOMAIN calls :
                  k > 1 => calls[k].system_setup_data = PyNone
    /\ (pc = "stopped" /\ "uut_setup" \notin registered)
           => \A i \in seq_entered :
                  \E k \in CallsOf("test_sequence", i) :
                      calls[k].uut_setup_data = PyNone

C20_NoSequenceCalls ==
    \A slot \in {"test_sequence", "uut_recovery", "uut_result_handler"} :
        Cardinality({k \in DOMAIN calls : calls[k].slot = slot}) = iter - 1

C20_QuitHandled ==
    (pc = "in_uut_setup" /\ pc' # pc /\ Top.exc = "QuitTestSystem")
        => /\ quit_requested'
           /\ ~fatal'
           /\ handled' = <<>>
           /\ pc' = "teardown"
           /\ released' = Append(released, "uut")
           /\ scopes' = <<"run">>
           /\ iter' = iter
           /\ Cardinality({k \in DOMAIN calls :
                              calls[k].slot = "uut_setup"}) = iter
           /\ C20_NoSequenceCalls'

C20_LoopEnded ==
    pc \in {"teardown", "stopped"} => (iter' = iter /\ calls' = calls)

C21_Handled ==
    (pc = "in_uut_setup" /\ pc' # pc
        /\ Top.exc \notin {"None", "QuitTestSystem", "AbortTestSequence"})
        => /\ handled' = Append(handled, Top.exc)
           /\ fatal'
           /\ pc' = "teardown"

C21_CleanedUp ==
    (pc = "stopped" /\ fatal) =>
        /\ handled # <<>>
        /\ scopes = <<>>
        /\ ~running
        /\ \A i \in seq_entered :
               \A slot \in {"uut_recovery", "uut_result_handler"} :
                   Cardinality(CallsOf(slot, i)) = 1

\* C21: an exception other than a control signal that escapes UutSetup or
\* TestSequence is given to the error handler, sets the fatal flag and ends
\* the loop; when the engine has stopped after such an exception, every
\* iteration whose SEQUENCE phase was entered has had UutRecovery and
\* UutResultHandler invoked, and teardown has run.
C21_FatalAfterCleanup ==
    [][C21_Handled]_vars /\ []C21_CleanedUp

C22_Raised ==
    (pc \in {"check1", "check2"} /\ pc' # pc /\ Wrecked)
        => /\ raised_faults' = <<mon_errors>>
           /\ "ClusterFuckException" \in Range(handled')
           /\ fatal'
           /\ pc' = "teardown"
           /\ scopes' = <<"run">>
           /\ calls' = calls

C22_Halted ==
    raised_faults # <<>>
        => /\ raised_faults' = raised_faults
           /\ iter' = iter
           /\ calls' = calls
           /\ pc' \in {"teardown", "stopped"}
           /\ pc' = "stopped" => (scopes' = <<>> /\ ~running')

\* C22: in the step in which the engine passes a checkpoint with a wrecked
\* monitor it raises one aggregate fault naming every MonitorError
\* accumulated, sets the fatal flag, closes the scope of the iteration and
\* goes to teardown; after that no second fault is raised, no slot is
\* invoked and no iteration begins, and the engine stops torn down.
C22_AggregateFault ==
    [][C22_Raised]_vars /\ [][C22_Halted]_vars

C22_Witness ==
    /\ pc = "stopped"
    /\ raised_faults = <<(<<"w1", "w2">>)>>
    /\ iter = 1
    /\ Len(calls) = 1
    /\ ~running

C23_TornDown ==
    pc = "stopped" =>
        /\ scopes = <<>>
        /\ "run" \in Range(released)
        /\ ~running

C24_Count(s, scope) == Cardinality({k \in DOMAIN s : s[k] = scope})

\* C24: at most the run scope and one iteration scope are open, the
\* iteration scope inside the run scope and only between its creation and
\* the end of its with block; every iteration scope created has been
\* released or is the open one, all of them before the run scope; and once
\* the engine has stopped the run scope has been released last and no scope
\* is open.
C24_ScopesReleasedInReverse ==
    /\ scopes \in {<<>>, <<"run">>, <<"run", "uut">>}
    /\ "uut" \in Range(scopes)
           => pc \in {"in_uut_setup", "check2", "supervision"}
    /\ C24_Count(released, "uut") + C24_Count(scopes, "uut")
           = Cardinality({k \in DOMAIN calls : calls[k].slot = "uut_setup"})
    /\ \A k \in DOMAIN released :
           released[k] = "run" => (k = Len(released) /\ pc = "stopped")
    /\ pc = "stopped"
           => /\ scopes = <<>>
              /\ released # <<>>
              /\ released[Len(released)] = "run"

C24_Witness ==
    /\ pc = "stopped"
    /\ released = <<"uut", "run">>
    /\ handled = <<"AbortTestSequence">>
    /\ scopes = <<>>

C25_NothingStarts ==
    (quit_requested /\ ~do_not_abort)
        => /\ Len(nodes') = Len(nodes)
           /\ iter' = iter
           /\ \A k \in DOMAIN calls' :
                  k > Len(calls)
                      => calls'[k].slot \in {"uut_recovery",
                                             "uut_result_handler"}

\* C25: in no step taken while quit is requested and no never-abort guard
\* is active does the body of a further test step start, a further loop
\* iteration begin or a slot other than UutRecovery and UutResultHandler
\* get invoked.
C25_QuitStartsNothing ==
    [][C25_NothingStarts]_vars

C26_Unwound ==
    (Len(frames) > 1 /\ Len(frames') < Len(frames)
        /\ \E i \in DOMAIN guards : guards[i] < Len(frames))
        => nodes'[Top.node].call # "QuitTestSystem"

\* C26: a step call that ends while a never_abort() block of one of its
\* callers is open does not end with the quit signal of the quit check,
\* whatever the quit-requested flag.
C26_GuardSuppressesQuit ==
    [][C26_Unwound]_vars

\* C27: the call of a decorated step whose body returns plain data v
\* raises nothing and hands v to its caller, below the engine's loop and
\* also when no engine is running.
C27_StepReturnsBodyValue ==
    (evaluated.fn = "call" /\ evaluated.done
        /\ evaluated.args[1].tag = "plain")
        => /\ evaluated.value.raised = "None"
           /\ evaluated.value.handed = evaluated.args[1]

C28_Kept ==
    /\ Len(mon_errors') >= Len(mon_errors)
    /\ SubSeq(mon_errors', 1, Len(mon_errors)) = mon_errors
    /\ Wrecked => Wrecked'

C28_WreckedIffRecorded ==
    Wrecked <=> "monitor" \in writers["mon_errors"]

\* C28: every step keeps the entries of the monitor's error list as they
\* are and in place, so that the list only grows; wrecked is true exactly
\* when set_error has recorded a MonitorError, and stays true.
C28_ErrorsAppendOnly ==
    [][C28_Kept]_vars /\ []C28_WreckedIffRecorded

C28_Witness ==
    /\ mon_errors = <<"w2", "w1">>
    /\ tasks = <<"w2", "w1">>
    /\ mon_pc = "done"
    /\ pc = "stopped"

\* C29: once the controller has called the monitor's quit(), the polling
\* loop ends and monitor_loop returns, whether quit() ran before or after
\* the first statement of monitor_loop.
C29_QuitStopsMonitor ==
    (ctl_pc = "join_monitor") ~> (mon_pc = "done")

C30_SingleWriterFields == SharedFields \ {"running", "mon_errors"}

\* C30: apart from the running flag and the monitor's error list, every
\* field shared by the controller, the engine worker and the monitor
\* worker is written by at most one of them.
C30_SingleWriter ==
    \A field \in C30_SingleWriterFields : Cardinality(writers[field]) <= 1

\* C31: an iteration whose SEQUENCE phase was entered, and in which the
\* sequence raised nothing but AbortTestSequence, is not an error: the
\* error handler is given nothing, the fatal flag stays clear, and
\* UutRecovery and UutResultHandler are both invoked for that iteration.
C31_SequenceAbortIsNoError ==
    (pc = "stopped" /\ raised_faults = <<>>) =>
        \A i \in seq_entered :
            /\ ~fatal
            /\ "TypeError" \notin Range(handled)
            /\ CallsOf("uut_recovery", i) # {}
            /\ CallsOf("uut_result_handler", i) # {}

\* C32: when the engine has stopped, every iteration whose SEQUENCE phase
\* was entered has had UutRecovery invoked while the ExitStack of the
\* iteration was open and UutResultHandler invoked after it was closed,
\* both with the same values of SystemSetup and UutSetup.
C32_RecoveryInsideScope ==
    pc = "stopped" =>
        \A i \in seq_entered :
            \E r \in CallsOf("uut_recovery", i),
               h \in CallsOf("uut_result_handler", i) :
                /\ r < h
                /\ "uut" \in Range(calls[r].scopes)
                /\ "uut" \notin Range(calls[h].scopes)
                /\ calls[r].system_setup_data = calls[h].system_setup_data
                /\ calls[r].uut_setup_data = calls[h].uut_setup_data

\* the nodes of the steps whose call is executing, outermost first
C33_Executing ==
    [i \in 1..(Len(frames) - 1) |-> frames[i + 1].node]

C33_ChildrenOf(p) == {n \in DOMAIN nodes : nodes[n].parent = p}

\* C33: the step stack is the chain of the executing steps: its bottom
\* entry is a root and every other entry has the entry below it as its
\* parent; the child list of a node holds exactly the nodes created with
\* that node on top of the stack, in the order of their creation.  The
\* stack of a caller is the same before and after each step call, and
\* the node a step call pops is the node it pushed.
C33_StackIsChain ==
    /\ test_step_stack = C33_Executing
    /\ \A i \in DOMAIN test_step_stack :
           nodes[test_step_stack[i]].parent =
               IF i = 1 THEN 0 ELSE test_step_stack[i - 1]
    /\ \A p \in DOMAIN nodes :
           /\ Range(nodes[p].children) = C33_ChildrenOf(p)
           /\ \A i, j \in DOMAIN nodes[p].children :
                  i < j => nodes[p].children[i] < nodes[p].children[j]
    /\ \A n \in DOMAIN nodes :
           Finished(n) => n \notin Range(test_step_stack)

C33_Witness ==
    /\ test_step_stack = <<1, 3>>
    /\ nodes[1].children = <<2, 3>>
    /\ nodes[2].body = "FailedTest"
    /\ nodes[3].parent = 1

\* the steps entered with an empty step stack, in the order of entry
C34_Roots ==
    SelectSeq([n \in 1..Len(nodes) |-> n], LAMBDA n : nodes[n].parent = 0)

\* C34: the root list of the iteration's sequence supervision holds the
\* steps entered with an empty step stack during the iteration, each once
\* and in the order of entry, and no embedded step.
C34_RootListHoldsRoots ==
    sequence = C34_Roots

\* C35: read on a TestSequenceSupervision whose context has not been
\* traversed, test_result and test_result_info both raise.
C35_ReadsFailBeforeExit ==
    (evaluated.fn = "sequence" /\ evaluated.done /\ ~evaluated.args[1]) =>
        /\ evaluated.value.test_result = "RuntimeError"
        /\ evaluated.value.test_result_info = "RuntimeError"

\* the MonitorErrors the tick has appended
C36_Appended == SubSeq(mon_errors, tick.base + 1, Len(mon_errors))

C36_Count(s, x) == Cardinality({i \in DOMAIN s : s[i] = x})

\* C36: when a tick of the polling loop is over, every predicate that
\* returned False and has a hook has had the hook invoked once, and no
\* other hook was invoked; every worker that was registered during the
\* whole tick and not alive when it began has had one MonitorError
\* appended, and no MonitorError was appended for a worker that is alive.
C36_TickReportsEveryFault ==
    (tick.over \/ mon_pc = "raised") =>
        /\ \A callback \in tick.failed :
               OnErrorCallback(callback) # "None"
                   => C36_Count(tick.hooks, callback) = 1
        /\ Range(tick.hooks) \subseteq tick.failed
        /\ \A task \in tick.stable_tasks \cap tick.dead_at_start :
               C36_Count(C36_Appended, task) = 1
        /\ Range(C36_Appended) \subseteq dead_tasks

\* C37: the never-abort flag is set exactly while a never_abort() block is
\* open, however the blocks opened before were left.
C37_GuardIffScopeOpen ==
    do_not_abort <=> (guards # <<>>)

C38_BindingError ==
    api.op = "register" /\ api.raised \notin {"None", "RuntimeError"}

C38_Unchanged ==
    C38_BindingError' => (registered' = registered /\ integrated' = integrated)

C38_StillUnbound ==
    C38_BindingError =>
        /\ api.slot \notin registered
        /\ integrated[api.slot] = NoFunc
        /\ Invoke(api.slot) = <<CallbackFrame(api.slot, "done", PyNone)>>
        /\ api.slot \in
               CheckRegistry(registered \cup (Slots \ {api.slot}), 1, {}).warned
        /\ RegisterRaises(api.slot \in registered, api.slot, <<>>) = "None"

\* C38: a register call that fails with a binding error changes neither
\* the slot's flag nor its function; afterwards the slot is unbound: its
\* invocation returns None at once, check() reports it, and registering a
\* callable the slot accepts succeeds.
C38_FailedRegisterLeavesSlot ==
    [][C38_Unchanged]_vars /\ []C38_StillUnbound

C38_Witness ==
    /\ C38_BindingError
    /\ api.raised = "TypeError"
    /\ "test_sequence" \in registered
    /\ api.slot \notin registered

C39_ControlSignals == {"QuitTestSystem", "AbortTestSequence"}

\* C39: the error handler is invoked exactly once for the fault that ends
\* a run (an exception that escaped a phase, or an aggregate monitor fault
\* raised at a checkpoint) and never for a control signal: the handler's
\* history is empty while the fatal flag is unset, holds one entry once it
\* is set, and never holds a quit or sequence-abort signal.
C39_HandlerOncePerFault ==
    /\ Len(handled) = (IF fatal THEN 1 ELSE 0)
    /\ \A i \in 1..Len(handled) : handled[i] \notin C39_ControlSignals

\* C40: once the engine worker has stopped, whether it met a quit signal,
\* set the fatal flag or found the running flag cleared from outside, the
\* controller eventually stops the monitor, joins the workers and returns
\* from the activation call.
C40_ControllerReturns ==
    (pc = "stopped") ~> (ctl_pc = "returned")


====
